---- MODULE Spec2Model ----
(***************************************************************************)
(* Sort-and-project pipeline of the WebGPU splat renderer:                 *)
(*   SortComputePass      (src/src/webgpu/SortComputePass.ts)              *)
(*   RenderComputePass    (src/src/webgpu/WebGPUSplatPipeline.ts 631-1056) *)
(*   WebGPUSplatPipeline  (src/src/webgpu/WebGPUSplatPipeline.ts 72-226)   *)
(*                                                                         *)
(* Typed arrays are functions on 0..len-1.  Float32 values are integers,   *)
(* with NaN as one distinguished value; the scene is one-dimensional       *)
(* along the view axis (plus one lateral coordinate), which keeps the      *)
(* distance kernel and the validity gates exact in integer arithmetic.     *)
(***************************************************************************)
EXTENDS Integers, Sequences, FiniteSets, TLC

----------------------------------------------------------------------------
(* Bounds                                                                  *)

\* maxSplats given to the WebGPUSplatPipeline constructor (capacity).
MaxSplats == 3

\* The branch threshold of SortComputePass.sort (numSplats < 1000), scaled
\* down so that both branches are taken by counts within the capacity.
SortThreshold == 3

\* Length of the key arrays of the sort-only specification.
SortLen == 4

\* Largest finite key of the sort-only specification.
MaxKey == 2
MaxBuilds == 3
MaxCalls == 2

----------------------------------------------------------------------------
(* Values                                                                  *)

\* Float32 NaN, as read back into distArray.
NaN == 9999

\* JavaScript undefined: the result of reading a typed array out of bounds.
Undef == 9998

\* float(1e30): the distance stored for threads at or beyond numSplats.
PadDistance == 1000

\* Defaults of WebGPUSplatPipeline.update, in the units of the model: alpha
\* is kept as the 8-bit code (minAlpha = 1/255 is code 1), lengths are whole
\* pixels (blurAmount 0.3 is 1, clipXY 1.2 is 1).
Tunables ==
  [maxStdDev |-> 3, minAlpha |-> 1, minPixelRadius |-> 0,
   maxPixelRadius |-> 2048, clipXY |-> 1, focalAdjustment |-> 1,
   blurAmount |-> 1, preBlurAmount |-> 0, depthBias |-> 1]

IsNum(x) == x # NaN /\ x # Undef

\* a < b on JavaScript numbers: false when either side is NaN or undefined.
Lt(a, b) == IsNum(a) /\ IsNum(b) /\ a < b

\* a >= b on JavaScript numbers.
Ge(a, b) == IsNum(a) /\ IsNum(b) /\ a >= b

Abs(x) == IF x < 0 THEN 0 - x ELSE x

Min2(a, b) == IF a < b THEN a ELSE b

\* typedArray[i]: undefined out of bounds.
Rd(arr, i) == IF i \in DOMAIN arr THEN arr[i] ELSE Undef

\* uint32Array[i] = v: ignored out of bounds; undefined is stored as 0.
Wr(arr, i, v) ==
  IF i \in DOMAIN arr
  THEN [arr EXCEPT ![i] = IF v = Undef THEN 0 ELSE v]
  ELSE arr

----------------------------------------------------------------------------
(* SortComputePass.sort, step 3: the CPU sort                              *)

\* for (let i = 0; i < numSplats; i++) indicesArray[i] = i
RECURSIVE InitIndices(_, _, _)
InitIndices(indices, n, i) ==
  IF i < n THEN InitIndices(Wr(indices, i, i), n, i + 1) ELSE indices

\* while (j >= 0 && distances[indices[j]] < dist) { indices[j+1] = indices[j]; j-- }
RECURSIVE InnerLoop(_, _, _, _)
InnerLoop(indices, distances, dist, j) ==
  IF j >= 0 /\ Lt(Rd(distances, Rd(indices, j)), dist)
  THEN InnerLoop(Wr(indices, j + 1, Rd(indices, j)), distances, dist, j - 1)
  ELSE <<indices, j>>

\* for (let i = 1; i < numSplats; i++) { ... indices[j + 1] = idx }
RECURSIVE InsertionSort(_, _, _, _)
InsertionSort(indices, distances, n, i) ==
  IF i < n
  THEN LET idx  == Rd(indices, i)
           dist == Rd(distances, idx)
           r    == InnerLoop(indices, distances, dist, i - 1)
       IN  InsertionSort(Wr(r[1], r[2] + 1, idx), distances, n, i + 1)
  ELSE indices

\* Array.from(indices.subarray(0, numSplats)): subarray clamps to the length.
IndexArrayFrom(indices, n) ==
  LET len == Cardinality(DOMAIN indices)
      m   == Min2(n, len)
  IN  [k \in 1..m |-> indices[k - 1]]

\* Sign of the comparator (a, b) => distances[b] - distances[a];
\* a NaN result counts as +0 (ECMAScript SortCompare).
CompareFn(distances, a, b) ==
  LET da == Rd(distances, a)
      db == Rd(distances, b)
  IN  IF ~(IsNum(da) /\ IsNum(db)) THEN 0
      ELSE IF db < da THEN 0 - 1
      ELSE IF db > da THEN 1
      ELSE 0

\* ECMAScript: a comparator is consistent on a set of values when = is an
\* equivalence and < is a strict order compatible with it.
ConsistentComparator(distances, S) ==
  \A a \in S : \A b \in S : \A c \in S :
    /\ (CompareFn(distances, a, b) = 0 /\ CompareFn(distances, b, c) = 0
          => CompareFn(distances, a, c) = 0)
    /\ (CompareFn(distances, a, b) < 0 /\ CompareFn(distances, b, c) < 0
          => CompareFn(distances, a, c) < 0)
    /\ (CompareFn(distances, a, b) < 0 /\ CompareFn(distances, b, c) = 0
          => CompareFn(distances, a, c) < 0)
    /\ (CompareFn(distances, a, b) = 0 /\ CompareFn(distances, b, c) < 0
          => CompareFn(distances, a, c) < 0)

\* x placed into the sorted sequence sq behind every element that does not
\* compare after it: the position a stable sort gives the latest element.
RECURSIVE StableInsert(_, _, _, _)
StableInsert(sq, x, distances, k) ==
  IF k >= 1 /\ CompareFn(distances, sq[k], x) > 0
  THEN StableInsert(sq, x, distances, k - 1)
  ELSE SubSeq(sq, 1, k) \o <<x>> \o SubSeq(sq, k + 1, Len(sq))

\* The stable order of indexArray[1..k] under CompareFn.
RECURSIVE StableSorted(_, _, _)
StableSorted(indexArray, distances, k) ==
  IF k = 0 THEN <<>>
  ELSE LET before == StableSorted(indexArray, distances, k - 1)
       IN  StableInsert(before, indexArray[k], distances, k - 1)

\* The results Array.prototype.sort may leave in indexArray: with a
\* consistent comparator the stable sorted order (one result); otherwise an
\* implementation-defined order of the same elements.
ArraySortOutcomes(indexArray, distances) ==
  LET m       == Len(indexArray)
      elems   == {indexArray[k] : k \in 1..m}
      out(p)  == [k \in 1..m |-> indexArray[p[k]]]
  IN  IF ConsistentComparator(distances, elems)
      THEN {StableSorted(indexArray, distances, m)}
      ELSE {out(p) : p \in Permutations(1..m)}

\* for (let i = 0; i < numSplats; i++) indices[i] = indexArray[i]
RECURSIVE CopyBack(_, _, _, _)
CopyBack(indices, indexArray, n, i) ==
  IF i < n
  THEN CopyBack(Wr(indices, i, IF i + 1 \in DOMAIN indexArray
                               THEN indexArray[i + 1] ELSE Undef),
                indexArray, n, i + 1)
  ELSE indices

\* The else branch with the copy-back loop started at 1 instead of 0.
ArraySortBranch_CopyFromOne(indices, distances, n) ==
  {CopyBack(indices, o, n, 1) :
     o \in ArraySortOutcomes(IndexArrayFrom(indices, n), distances)}

\* The else branch of the sort: the possible contents of indices afterwards.
ArraySortBranch(indices, distances, n) ==
  {CopyBack(indices, o, n, 0) :
     o \in ArraySortOutcomes(IndexArrayFrom(indices, n), distances)}

\* if (numSplats < 1000) insertion sort, else Array.sort
UseInsertionSort(n) == n < SortThreshold

\* Step 3 as a whole: the possible contents of indicesArray after the sort.
CpuSort(indicesArray, distances, n) ==
  LET indices == InitIndices(indicesArray, n, 0)
  IN  IF UseInsertionSort(n)
      THEN {InsertionSort(indices, distances, n, 1)}
      ELSE ArraySortBranch(indices, distances, n)

\* sortedArray.set(indices.subarray(0, numSplats))
Upload(sortedArray, indices, n) ==
  LET len == Cardinality(DOMAIN indices)
      m   == Min2(n, len)
  IN  [k \in DOMAIN sortedArray |-> IF k < m THEN indices[k] ELSE sortedArray[k]]

----------------------------------------------------------------------------
(* The scene: packed-splat textures, cameras                               *)

\* Identities of the DataArrayTextures handed to update().
Textures == {1, 2}

\* The placeholder texture both passes create in their constructors.
Placeholder == 0

\* unpackSplatEncoding of texel i of texture t: center along the view axis
\* (NaN for a half-float NaN), lateral offset x, alpha code, scales.
\* Texture 1 is well formed apart from a transparent splat; texture 2 holds
\* a zero-scale splat, a NaN center and a splat far off to the side;
\* texture 3 holds an elongated, a large and a small opaque splat.
TexSplat(t, i) ==
  IF t = 1 THEN
    [center |-> (2 * i) % 3, x |-> 0,
     alpha |-> IF i % 3 = 2 THEN 0 ELSE 2, scales |-> <<1, 1, 1>>]
  ELSE IF t = 2 THEN
    CASE i % 3 = 0 -> [center |-> 1, x |-> 0, alpha |-> 2, scales |-> <<0, 0, 0>>]
      [] i % 3 = 1 -> [center |-> NaN, x |-> 0, alpha |-> 2, scales |-> <<1, 1, 1>>]
      [] OTHER     -> [center |-> 0, x |-> 20, alpha |-> 2, scales |-> <<1, 2, 1>>]
  ELSE IF t = 3 THEN
    CASE i % 3 = 0 -> [center |-> 0, x |-> 0, alpha |-> 2, scales |-> <<1, 2, 1>>]
      [] i % 3 = 1 -> [center |-> 2, x |-> 0, alpha |-> 2, scales |-> <<3, 3, 3>>]
      [] OTHER     -> [center |-> 1, x |-> 0, alpha |-> 2, scales |-> <<1, 1, 1>>]
  ELSE
    [center |-> 0, x |-> 0, alpha |-> 0, scales |-> <<0, 0, 0>>]

\* Cameras: accumToView is z_view = q * z + p (q = 1, or -1 for a half turn
\* about the vertical axis), with a perspective projection matrix of which
\* the kernel reads m00, m11 and the third and fourth rows.
Cameras ==
  {[id |-> 1, q |-> 1, p |-> 0 - 3,
    proj |-> [m00 |-> 1, m11 |-> 1, m22 |-> 0 - 6, m23 |-> 0 - 10,
              m32 |-> 0 - 4, m33 |-> 0],
    renderSize |-> 12, isPerspectiveCamera |-> TRUE],
   [id |-> 2, q |-> 0 - 1, p |-> 1,
    proj |-> [m00 |-> 1, m11 |-> 1, m22 |-> 0 - 6, m23 |-> 0 - 10,
              m32 |-> 0 - 4, m33 |-> 0],
    renderSize |-> 12, isPerspectiveCamera |-> TRUE]}

\* viewOrigin = (0,0,0) applied to viewToAccum = inverse(accumToView).
ViewOrigin(cam) == 0 - (cam.q * cam.p)

\* viewDirection = (0,0,-1) transformed by viewToAccum, normalized.
ViewDirection(cam) == 0 - cam.q

----------------------------------------------------------------------------
(* SortComputePass: the distance kernel                                    *)

\* One invocation of the distance compute node (thread splatIdx).
DistanceOf(u, splatIdx) ==
  LET isValid    == splatIdx < u.numSplats
      center     == TexSplat(u.tex, splatIdx).center
      toSplat    == IF center = NaN THEN NaN ELSE center - u.viewOrigin
      radialDist == IF toSplat = NaN THEN NaN ELSE Abs(toSplat)
      depthDist  == IF toSplat = NaN THEN NaN
                    ELSE toSplat * u.viewDirection + u.depthBias
      computed   == IF u.sortRadial = 1 THEN radialDist ELSE depthDist
  IN  IF isValid THEN computed ELSE PadDistance

\* The whole dispatch: .compute(maxSplats) runs one thread per buffer slot.
DistanceKernel(u) == [i \in 0..(MaxSplats - 1) |-> DistanceOf(u, i)]

----------------------------------------------------------------------------
(* RenderComputePass: the projection kernel                                *)

\* a <= b on shader floats: false when either side is NaN.
Le(a, b) == IsNum(a) /\ IsNum(b) /\ a <= b

\* Arithmetic on shader floats: NaN is absorbing.
Mul(a, b) == IF IsNum(a) /\ IsNum(b) THEN a * b ELSE NaN
Add(a, b) == IF IsNum(a) /\ IsNum(b) THEN a + b ELSE NaN
Sub(a, b) == IF IsNum(a) /\ IsNum(b) THEN a - b ELSE NaN
FAbs(a) == IF IsNum(a) THEN Abs(a) ELSE NaN

\* a / b; a division by zero leaves no finite value.
Div(a, b) == IF IsNum(a) /\ IsNum(b) /\ b # 0 THEN a \div b ELSE NaN

\* The whole part of the square root of x >= 0, by bisection on lo..hi.
RECURSIVE SqrtBetween(_, _, _)
SqrtBetween(x, lo, hi) ==
  IF lo >= hi THEN lo
  ELSE LET mid == (lo + hi + 1) \div 2
       IN  IF mid * mid <= x THEN SqrtBetween(x, mid, hi)
           ELSE SqrtBetween(x, lo, mid - 1)

\* sqrt(max(0, x)) in whole units.
SqrtMax0(x) ==
  IF ~IsNum(x) THEN NaN
  ELSE IF x <= 0 THEN 0
  ELSE SqrtBetween(x, 0, Min2(x, 46340))

\* The radius left unclamped: min(maxPixelRadius, r) replaced by r.
FMin_NoClamp(a, b) == b

\* min(a, b) of the shader: the finite operand when the other is NaN.
FMin(a, b) == IF ~IsNum(b) THEN a ELSE IF ~IsNum(a) THEN b ELSE Min2(a, b)

\* QUAD_CORNERS in the order the kernel emits them.
Corners == <<<<0 - 1, 0 - 1>>, <<1, 0 - 1>>, <<1, 1>>, <<0 - 1, 1>>>>

\* degeneratePos, degenerateColor, degenerateUv
DegeneratePos == <<0, 0, 2>>
DegenerateColor == <<0, 0, 1>>
DegenerateUv == <<0, 0>>

\* A component of a computed corner position (ndcCenter + ndcOffset), kept
\* symbolic: it names the camera, texture, splat record, corner and axis it
\* was computed from, and differs from every component of the sentinel.
PosComponent(camId, tex, actualIdx, k, axis) ==
  ((((camId * 10 + tex) * 10 + actualIdx) * 10 + k) * 10) + axis

\* rgb of a splat record, kept symbolic in the same way.
RgbCode(tex, actualIdx) == tex * 10 + actualIdx + 1

\* projectCov3DTo2D for the diagonal cov3D of an axis-aligned splat with
\* viewCenter.y = 0: <<a, b, d>> of the 2D covariance.  isOrthographic is
\* the JavaScript argument that picks the path when the node is built.
ProjectCov3DTo2D(vx, vy, vz, c00, c11, c22, fx, fy, isOrthographic) ==
  IF isOrthographic
  THEN <<Mul(c00, fx * fx), 0, Mul(c11, fy * fy)>>
  ELSE LET z2 == Mul(vz, vz)
           z4 == Mul(z2, z2)
           a  == Add(Div(Mul(fx * fx, c00), z2),
                     Div(Mul(Mul(fx * fx, Mul(vx, vx)), c22), z4))
           d  == Add(Div(Mul(fy * fy, c11), z2),
                     Div(Mul(Mul(fy * fy, Mul(vy, vy)), c22), z4))
       IN  <<a, IF IsNum(a) THEN 0 ELSE NaN, d>>

\* The gates and outputs of one invocation (thread splatIdx) of the compute
\* node `node` under uniforms u, reading sortedArray.
ProjectSplat(u, node, sortedArray, splatIdx) ==
  LET withinRange == splatIdx < u.numSplats
      actualIdx   == IF node.useSorted THEN sortedArray[splatIdx] ELSE splatIdx
      s           == TexSplat(node.tex, actualIdx)
      alphaValid  == s.alpha >= u.minAlpha
      hasNonZeroScale == s.scales[1] > 0 \/ s.scales[2] > 0 \/ s.scales[3] > 0
      \* viewCenter = quatVec(viewQuat, center) + viewPos
      vx == IF s.center = NaN THEN NaN ELSE u.q * s.x
      vy == IF s.center = NaN THEN NaN ELSE 0
      vz == IF s.center = NaN THEN NaN ELSE u.q * s.center + u.p
      inFrontOfCamera == Lt(vz, 0)
      \* clipCenter = projMatrix * vec4(viewCenter, 1)
      clipX == Mul(u.proj.m00, vx)
      clipY == Mul(u.proj.m11, vy)
      clipZ == Add(Mul(u.proj.m22, vz), u.proj.m23)
      clipW == Add(Mul(u.proj.m32, vz), u.proj.m33)
      withinDepthRange == Lt(FAbs(clipZ), clipW)
      clipLimit == Mul(u.clipXY, clipW)
      withinXYFrustum == Le(FAbs(clipX), clipLimit) /\ Le(FAbs(clipY), clipLimit)
      safeW == IF clipW = 0 THEN 1 ELSE clipW
      \* cov3D = RS * RS^T for an axis-aligned splat: diag(sx^2, sy^2, sz^2)
      c00 == s.scales[1] * s.scales[1]
      c11 == s.scales[2] * s.scales[2]
      c22 == s.scales[3] * s.scales[3]
      fx == (u.renderSize * u.focalAdjustment * u.proj.m00) \div 2
      fy == (u.renderSize * u.focalAdjustment * u.proj.m11) \div 2
      \* projectCov3DTo2D(viewCenter, cov3D, focal, false)
      cov2D == ProjectCov3DTo2D(vx, vy, vz, c00, c11, c22, fx, fy, FALSE)
      covA == cov2D[1]
      covB == cov2D[2]
      covD == cov2D[3]
      a == Add(covA, u.preBlurAmount)
      b == covB
      d == Add(covD, u.preBlurAmount)
      detOrig == Sub(Mul(a, d), Mul(b, b))
      aBlur == Add(a, u.blurAmount)
      dBlur == Add(d, u.blurAmount)
      det == Sub(Mul(aBlur, dBlur), Mul(b, b))
      safeDet == IF IsNum(det) /\ det >= 1 THEN det ELSE 1
      \* finalAlpha = rgba.w * sqrt(max(0, detOrig / safeDet)), kept as the
      \* fraction finalAlpha^2 = alphaNum / alphaDen
      alphaNum == IF IsNum(detOrig) /\ detOrig > 0
                  THEN s.alpha * s.alpha * detOrig ELSE IF IsNum(detOrig) THEN 0 ELSE NaN
      alphaDen == safeDet
      finalAlphaValid ==
        IsNum(alphaNum) /\ alphaNum >= u.minAlpha * u.minAlpha * alphaDen
      \* eigenDecompose2x2(aBlur, b, dBlur), doubled to stay in whole units
      avg2 == Add(aBlur, dBlur)
      delta2 == SqrtMax0(Sub(Mul(avg2, avg2), Mul(4, det)))
      eigen1 == Div(Add(avg2, delta2), 2)
      eigen2 == Div(Sub(avg2, delta2), 2)
      scale1 == FMin(u.maxPixelRadius, Mul(u.maxStdDev, SqrtMax0(eigen1)))
      scale2 == FMin(u.maxPixelRadius, Mul(u.maxStdDev, SqrtMax0(eigen2)))
      hasMinRadius == Ge(scale1, u.minPixelRadius) \/ Ge(scale2, u.minPixelRadius)
      isValid ==
        /\ withinRange
        /\ alphaValid
        /\ hasNonZeroScale
        /\ inFrontOfCamera
        /\ withinDepthRange
        /\ withinXYFrustum
        /\ finalAlphaValid
        /\ hasMinRadius
      finalRgba == <<RgbCode(node.tex, actualIdx), alphaNum, alphaDen>>
      pos(k) == [axis \in 1..3 |->
                   PosComponent(u.camId, node.tex, actualIdx, k, axis)]
      uv(k) == <<Corners[k][1] * u.maxStdDev, Corners[k][2] * u.maxStdDev>>
  IN  [actualIdx |-> actualIdx,
       isValid |-> isValid,
       gates |-> [withinRange |-> withinRange, alphaValid |-> alphaValid,
                  hasNonZeroScale |-> hasNonZeroScale,
                  inFrontOfCamera |-> inFrontOfCamera,
                  withinDepthRange |-> withinDepthRange,
                  withinXYFrustum |-> withinXYFrustum,
                  finalAlphaValid |-> finalAlphaValid,
                  hasMinRadius |-> hasMinRadius],
       clipW |-> clipW, safeW |-> safeW, scale1 |-> scale1, scale2 |-> scale2,
       viewCenter |-> <<vx, vy, vz>>, cov3D |-> <<c00, c11, c22>>,
       focal |-> <<fx, fy>>, cov2D |-> cov2D,
       pos |-> [k \in 1..4 |-> IF isValid THEN pos(k) ELSE DegeneratePos],
       color |-> [k \in 1..4 |-> IF isValid THEN finalRgba ELSE DegenerateColor],
       uv |-> [k \in 1..4 |-> IF isValid THEN uv(k) ELSE DegenerateUv]]

\* posStorage is storage(positionAttr, "float", vertexCount * 3): element(v)
\* is float number v of the buffer, and assigning a vec3 to it stores the
\* vector converted to a float, its x component.
PositionStore(posFloats, v, vec) == Wr(posFloats, v, vec[1])

\* colStorage ("vec4") and uvStorage ("vec2"): element(v) is vertex v.
VertexStore(attr, v, value) == [attr EXCEPT ![v] = value]

\* The four corner writes of thread splatIdx into the three attributes.
RECURSIVE WriteCorners(_, _, _, _)
WriteCorners(buf, out, splatIdx, k) ==
  IF k > 4 THEN buf
  ELSE LET v == splatIdx * 4 + (k - 1)
       IN  WriteCorners(
             [pos   |-> PositionStore(buf.pos, v, out.pos[k]),
              color |-> VertexStore(buf.color, v, out.color[k]),
              uv    |-> VertexStore(buf.uv, v, out.uv[k])],
             out, splatIdx, k + 1)

\* The whole dispatch, .compute(maxSplats): threads write disjoint vertices.
RECURSIVE ProjectionKernel(_, _, _, _, _)
ProjectionKernel(buf, u, node, sortedArray, splatIdx) ==
  IF splatIdx >= MaxSplats THEN buf
  ELSE ProjectionKernel(
         WriteCorners(buf, ProjectSplat(u, node, sortedArray, splatIdx),
                      splatIdx, 1),
         u, node, sortedArray, splatIdx + 1)

\* The position attribute as the rasterizer reads it: vertex v is the three
\* floats 3v..3v+2 (itemSize 3, tightly packed).
VertexPosition(posFloats, v) ==
  <<posFloats[3 * v], posFloats[3 * v + 1], posFloats[3 * v + 2]>>

----------------------------------------------------------------------------
(* State                                                                   *)

VARIABLES
  pc,             \* where the update() in flight is suspended, or "idle"
  call,           \* parameters of the update() call in flight or last made
  sortU,          \* SortComputePass.uniforms and its texture uniform value
  distBuffer,     \* SortComputePass.distanceBuffer (GPU)
  indicesArray,   \* SortComputePass.indicesArray (CPU scratch)
  sortedArray,    \* SortComputePass.sortedIndicesBuffer.value.array
  renderU,        \* RenderComputePass.uniforms
  node,           \* what RenderComputePass.computeNode captured when built
  currentTexture, \* RenderComputePass.currentTexture
  useSortedIndices, \* RenderComputePass.useSortedIndices
  buf,            \* the position, color and uv attributes of the geometry
  drawRange,      \* geometry.drawRange as <<start, count>>
  indexBuffer,    \* the index attribute of the geometry
  sortRun,        \* sort-only specification: one key array and both results
  probe           \* single-function specifications: one input and its result

vars == <<pc, call, sortU, distBuffer, indicesArray, sortedArray, renderU,
          node, currentTexture, useSortedIndices, buf, drawRange,
          indexBuffer, sortRun, probe,
                 indexBuffer>>

\* currentTexture before the first update: null.
NullTexture == 0 - 1

NoProbe == [fn |-> "none"]

NoSortRun == [n |-> 0, keys |-> <<>>, ins |-> <<>>, arr |-> <<>>]

NoCall ==
  [numSplats |-> 0, tex |-> Placeholder, camId |-> 0, sortRadial |-> TRUE,
   sorted |-> FALSE, settled |-> "none"]

\* SortComputePass constructor.
SortPassInit ==
  /\ sortU = [numSplats |-> 0, viewOrigin |-> 0, viewDirection |-> 0 - 1,
              sortRadial |-> 1, depthBias |-> 1, tex |-> Placeholder,
              nodeBuilds |-> 1]
  /\ distBuffer = [i \in 0..(MaxSplats - 1) |-> 0]
  /\ indicesArray = [i \in 0..(MaxSplats - 1) |-> i]
  /\ sortedArray = [i \in 0..(MaxSplats - 1) |-> 0]

\* RenderComputePass constructor: zeroed attributes, empty draw range, and a
\* first compute node built over the placeholder texture without sorted
\* indices.
\* Index pattern of the two triangles of a quad.
QUAD_INDICES == <<0, 1, 2, 0, 2, 3>>

\* The index array the constructor fills: six entries per splat slot.
IndexBufferInit ==
  [k \in 0..(6 * MaxSplats - 1) |->
     ((k \div 6) * 4) + QUAD_INDICES[(k % 6) + 1]]

\* The draw range counted in vertices instead of indices.
SetDrawRange_PerVertex(numSplats) == <<0, numSplats * 4>>

\* geometry.setDrawRange(0, numSplats * 6) at the end of an update.
SetDrawRange(numSplats) == <<0, numSplats * 6>>

RenderPassInit ==
  /\ renderU = [numSplats |-> 0, camId |-> 0, q |-> 1, p |-> 0,
                proj |-> [m00 |-> 1, m11 |-> 1, m22 |-> 1, m23 |-> 0,
                          m32 |-> 0, m33 |-> 1],
                renderSize |-> 1, maxStdDev |-> 3, minAlpha |-> 1,
                minPixelRadius |-> 0, maxPixelRadius |-> 2048, clipXY |-> 1,
                focalAdjustment |-> 1, blurAmount |-> 1, preBlurAmount |-> 0,
                isOrthographic |-> 0]
  /\ node = [useSorted |-> FALSE, tex |-> Placeholder]
  /\ currentTexture = NullTexture
  /\ useSortedIndices = FALSE
  /\ buf = [pos   |-> [f \in 0..(12 * MaxSplats - 1) |-> 0],
            color |-> [v \in 0..(4 * MaxSplats - 1) |-> <<0, 0, 1>>],
            uv    |-> [v \in 0..(4 * MaxSplats - 1) |-> <<0, 0>>]]
  /\ drawRange = <<0, 0>>
  /\ indexBuffer = IndexBufferInit

\* WebGPUSplatPipeline constructor.
Init ==
  /\ pc = "idle"
  /\ call = NoCall
  /\ SortPassInit
  /\ RenderPassInit
  /\ sortRun = NoSortRun
  /\ probe = NoProbe

----------------------------------------------------------------------------
(* WebGPUSplatPipeline.update                                              *)

\* The early exit without its setDrawRange(0, 0).
UpdateEmpty_KeepsDrawRange ==
  /\ pc = "idle"
  /\ call' = [NoCall EXCEPT !.settled = "resolved"]
  /\ UNCHANGED <<pc, sortU, distBuffer, indicesArray, sortedArray, renderU,
                 node, currentTexture, useSortedIndices, buf, drawRange,
                 sortRun, probe,
                 indexBuffer>>

\* update() with numSplats === 0: the early exit.
UpdateEmpty ==
  /\ pc = "idle"
  /\ call' = [NoCall EXCEPT !.settled = "resolved"]
  /\ drawRange' = <<0, 0>>
  /\ UNCHANGED <<pc, sortU, distBuffer, indicesArray, sortedArray, renderU,
                 node, currentTexture, useSortedIndices, buf, sortRun, probe,
                 indexBuffer>>

\* update() with numSplats > 0, up to the first await: the view transforms,
\* then sort() sets its uniforms and dispatches the distance compute node.
\* The distance node rebuilt whenever the texture changes, as the
\* projection kernel is.
DistanceNodeBuilds_OnTextureChange(u, packedSplatsTexture) ==
  IF u.tex # packedSplatsTexture
  THEN Min2(u.nodeBuilds + 1, MaxBuilds)
  ELSE u.nodeBuilds

\* How many times buildDistanceComputeNode has run once sort() has taken
\* the texture: a changed texture only assigns the uniform's value.
DistanceNodeBuilds(u, packedSplatsTexture) == u.nodeBuilds

UpdateBegin(n, tex, cam, sortRadial) ==
  /\ pc = "idle"
  /\ n > 0
  /\ call' = [numSplats |-> n, tex |-> tex, camId |-> cam.id,
              sortRadial |-> sortRadial, sorted |-> FALSE,
              settled |-> "pending"]
  /\ sortU' = [numSplats |-> n, viewOrigin |-> ViewOrigin(cam),
               viewDirection |-> ViewDirection(cam),
               sortRadial |-> IF sortRadial THEN 1 ELSE 0,
               depthBias |-> Tunables.depthBias, tex |-> tex,
               nodeBuilds |-> DistanceNodeBuilds(sortU, tex)]
  /\ pc' = "distance"
  /\ UNCHANGED <<distBuffer, indicesArray, sortedArray, renderU, node,
                 currentTexture, useSortedIndices, buf, drawRange,
                 sortRun, probe,
                 indexBuffer>>

\* sort() going on to the readback without awaiting the distance dispatch.
DistanceDone_NotAwaited ==
  /\ pc = "distance"
  /\ pc' = "readback"
  /\ UNCHANGED <<call, sortU, distBuffer, indicesArray, sortedArray, renderU,
                 node, currentTexture, useSortedIndices, buf, drawRange,
                 sortRun, probe,
                 indexBuffer>>

\* await renderer.computeAsync(distanceComputeNode) resolves.
DistanceDone ==
  /\ pc = "distance"
  /\ distBuffer' = DistanceKernel(sortU)
  /\ pc' = "readback"
  /\ UNCHANGED <<call, sortU, indicesArray, sortedArray, renderU, node,
                 currentTexture, useSortedIndices, buf, drawRange,
                 sortRun, probe,
                 indexBuffer>>

\* The uniform values RenderComputePass.update writes for a frame of
\* numSplats splats seen by cam under the tunables t.
RenderUniforms(numSplats, cam, t) ==
  [numSplats |-> numSplats, camId |-> cam.id,
   q |-> cam.q, p |-> cam.p,
   proj |-> cam.proj,
   renderSize |-> cam.renderSize,
   maxStdDev |-> t.maxStdDev,
   minAlpha |-> t.minAlpha,
   minPixelRadius |-> t.minPixelRadius,
   maxPixelRadius |-> t.maxPixelRadius,
   clipXY |-> t.clipXY,
   focalAdjustment |-> t.focalAdjustment,
   blurAmount |-> t.blurAmount,
   preBlurAmount |-> t.preBlurAmount,
   isOrthographic |-> IF cam.isPerspectiveCamera THEN 0 ELSE 1]

CallCamera == CHOOSE cam \in Cameras : cam.id = call.camId

\* After sort() returns: setSortedIndicesStorage, then RenderComputePass.update
\* up to its await: uniforms, rebuild on a texture change, dispatch.
\* The kernel is rebuilt on every update, whatever the texture.
RebuildNeeded_Always(current, packedSplatsTexture) == TRUE

\* this.currentTexture !== params.packedSplatsTexture
RebuildNeeded(current, packedSplatsTexture) == current # packedSplatsTexture

\* renderPass.update() reached before setSortedIndicesStorage(): a rebuild
\* captures the flag as it was before this update.
RenderDispatch_StorageSetAfter ==
  /\ useSortedIndices' = TRUE
  /\ renderU' = RenderUniforms(call.numSplats, CallCamera, Tunables)
  /\ IF RebuildNeeded(currentTexture, call.tex)
     THEN /\ currentTexture' = call.tex
          /\ node' = [useSorted |-> useSortedIndices, tex |-> call.tex]
     ELSE UNCHANGED <<currentTexture, node>>
  /\ pc' = "project"

RenderDispatch ==
  /\ useSortedIndices' = TRUE
  /\ renderU' = RenderUniforms(call.numSplats, CallCamera, Tunables)
  /\ IF RebuildNeeded(currentTexture, call.tex)
     THEN /\ currentTexture' = call.tex
          /\ node' = [useSorted |-> useSortedIndices', tex |-> call.tex]
     ELSE UNCHANGED <<currentTexture, node>>
  /\ pc' = "project"

\* getArrayBufferAsync resolves: steps 3 and 4 of sort(), then the render
\* pass is dispatched.
ReadbackOk ==
  /\ pc = "readback"
  /\ \E sortedIdx \in CpuSort(indicesArray, distBuffer, call.numSplats) :
       /\ indicesArray' = sortedIdx
       /\ sortedArray' = Upload(sortedArray, sortedIdx, call.numSplats)
  /\ call' = [call EXCEPT !.sorted = TRUE]
  /\ RenderDispatch
  /\ UNCHANGED <<sortU, distBuffer, buf, drawRange, sortRun, probe,
                 indexBuffer>>

\* getArrayBufferAsync rejects: sort() returns from its catch block, and
\* update() goes on to the render pass.
ReadbackFail ==
  /\ pc = "readback"
  /\ RenderDispatch
  /\ UNCHANGED <<call, sortU, distBuffer, indicesArray, sortedArray, buf,
                 drawRange, sortRun, probe,
                 indexBuffer>>

\* await renderer.computeAsync(computeNode) resolves; then setDrawRange.
ProjectDone ==
  /\ pc = "project"
  /\ buf' = ProjectionKernel(buf, renderU, node, sortedArray, 0)
  /\ drawRange' = SetDrawRange(renderU.numSplats)
  /\ call' = [call EXCEPT !.settled = "resolved"]
  /\ pc' = "idle"
  /\ UNCHANGED <<sortU, distBuffer, indicesArray, sortedArray, renderU, node,
                 currentTexture, useSortedIndices, sortRun, probe,
                 indexBuffer>>

\* The numSplats a caller passes: the largest count sorted by insertion, the
\* smallest sorted by Array.sort, and the first count above the capacity.
SplatCounts == {SortThreshold - 1, SortThreshold, MaxSplats + 1}

Next ==
  \/ UpdateEmpty
  \/ \E n \in SplatCounts : \E tex \in Textures : \E cam \in Cameras :
       \E sortRadial \in BOOLEAN : UpdateBegin(n, tex, cam, sortRadial)
  \/ DistanceDone
  \/ ReadbackOk
  \/ ReadbackFail
  \/ ProjectDone

Spec == Init /\ [][Next]_vars

----------------------------------------------------------------------------
(* The two branches of the CPU sort on one key array                       *)

pipeVars == <<pc, call, sortU, distBuffer, indicesArray, sortedArray, renderU,
              node, currentTexture, useSortedIndices, buf, drawRange,
              indexBuffer>>

\* Key arrays read back from the distance buffer: finite keys and NaN.
KeyValues == (0..MaxKey) \cup {NaN}

Identity(len) == [i \in 0..(len - 1) |-> i]

\* A readback of SortLen keys, of which the first n are sorted.
SortInit ==
  /\ Init!1 /\ Init!2 /\ SortPassInit /\ RenderPassInit
  /\ probe = NoProbe
  /\ \E n \in 0..SortLen : \E keys \in [0..(SortLen - 1) -> KeyValues] :
       sortRun = [n |-> n, keys |-> keys, ins |-> <<>>, arr |-> <<>>]

\* The branch taken below the threshold.
RunInsertionSort ==
  /\ sortRun.ins = <<>>
  /\ sortRun' = [sortRun EXCEPT !.ins =
       InsertionSort(InitIndices(Identity(SortLen), sortRun.n, 0),
                     sortRun.keys, sortRun.n, 1)]
  /\ UNCHANGED <<pipeVars, probe>>

\* The branch taken at or above the threshold.
RunArraySort ==
  /\ sortRun.arr = <<>>
  /\ \E r \in ArraySortBranch(InitIndices(Identity(SortLen), sortRun.n, 0),
                              sortRun.keys, sortRun.n) :
       sortRun' = [sortRun EXCEPT !.arr = r]
  /\ UNCHANGED <<pipeVars, probe>>

SortNext == RunInsertionSort \/ RunArraySort

SpecSort == SortInit /\ [][SortNext]_vars

----------------------------------------------------------------------------
(* One invocation of the projection kernel on one splat                    *)

\* Cameras handed to update(): the two perspective cameras, an orthographic
\* camera (clip.w = 1 everywhere) and a camera whose projection matrix puts
\* clip.w = 0 on a plane in front of it (w = -z - 1).
ProbeCameras ==
  Cameras \cup
  {[id |-> 3, q |-> 1, p |-> 0 - 3,
    proj |-> [m00 |-> 1, m11 |-> 1, m22 |-> 0, m23 |-> 0,
              m32 |-> 0, m33 |-> 1],
    renderSize |-> 12, isPerspectiveCamera |-> FALSE],
   [id |-> 4, q |-> 1, p |-> 0 - 3,
    proj |-> [m00 |-> 1, m11 |-> 1, m22 |-> 0, m23 |-> 0,
              m32 |-> 0 - 1, m33 |-> 0 - 1],
    renderSize |-> 12, isPerspectiveCamera |-> TRUE]}

\* Textures handed to update().
ProbeTextures == {1, 2, 3}

\* minPixelRadius and maxPixelRadius handed to update(): the defaults and a
\* pair that cuts into the radii of the scene.
ProbeMinRadii == {Tunables.minPixelRadius, 8}
ProbeMaxRadii == {Tunables.maxPixelRadius, 10}

\* The uniforms of a frame and the slot of one thread of the kernel.
ProjectInit ==
  /\ Init!1 /\ Init!2 /\ SortPassInit /\ RenderPassInit
  /\ sortRun = NoSortRun
  /\ \E cam \in ProbeCameras : \E tex \in ProbeTextures :
       \E slot \in 0..(MaxSplats - 1) :
         \E minR \in ProbeMinRadii : \E maxR \in ProbeMaxRadii :
           probe = [fn |-> "project",
                    u |-> RenderUniforms(MaxSplats, cam,
                            [Tunables EXCEPT !.minPixelRadius = minR,
                                             !.maxPixelRadius = maxR]),
                    cam |-> cam, tex |-> tex, slot |-> slot, out |-> <<>>]

\* The thread runs: gates and the values it assigns to its four vertices.
RunProjection ==
  /\ probe.fn = "project"
  /\ probe.out = <<>>
  /\ probe' = [probe EXCEPT !.out =
       ProjectSplat(probe.u, [useSorted |-> FALSE, tex |-> probe.tex],
                    sortedArray, probe.slot)]
  /\ UNCHANGED <<pipeVars, sortRun>>

ProjectNext == RunProjection

SpecProject == ProjectInit /\ [][ProjectNext]_vars

\* The thread of the probe has run.
Projected == probe.fn = "project" /\ probe.out # <<>>

\* C11 (as stated): every splat emitted as a valid quad has both pixel radii
\* within [minPixelRadius, maxPixelRadius].
C11_BothRadiiWithinBounds ==
  (Projected /\ probe.out.isValid) =>
    /\ Le(probe.u.minPixelRadius, probe.out.scale1)
    /\ Le(probe.out.scale1, probe.u.maxPixelRadius)
    /\ Le(probe.u.minPixelRadius, probe.out.scale2)
    /\ Le(probe.out.scale2, probe.u.maxPixelRadius)

\* C11 (amended): every splat emitted as a valid quad has both pixel radii
\* within [0, maxPixelRadius], and at least one of them is at least
\* minPixelRadius.
C11_RadiiClampedAboveGatedBelow ==
  (Projected /\ probe.out.isValid) =>
    /\ Le(0, probe.out.scale1) /\ Le(probe.out.scale1, probe.u.maxPixelRadius)
    /\ Le(0, probe.out.scale2) /\ Le(probe.out.scale2, probe.u.maxPixelRadius)
    /\ \/ Le(probe.u.minPixelRadius, probe.out.scale1)
       \/ Le(probe.u.minPixelRadius, probe.out.scale2)

\* C11 witness: a valid quad whose larger radius was cut to maxPixelRadius
\* under a positive minPixelRadius.
C11_Witness ==
  /\ Projected /\ probe.out.isValid
  /\ probe.u.minPixelRadius > 0
  /\ probe.out.scale1 = probe.u.maxPixelRadius
  /\ probe.out.scale2 < probe.out.scale1

----------------------------------------------------------------------------
(* RenderComputePass on its own: update() and setSortedIndicesStorage()    *)

\* Values of the sortedIndicesStorage argument: null or a storage node.
StorageArgs == {"null", "storage"}

\* After the constructor: no texture seen, the kernel built once.
RebuildInit ==
  /\ Init!1 /\ Init!2 /\ SortPassInit /\ RenderPassInit
  /\ sortRun = NoSortRun
  /\ probe = [fn |-> "render", currentTexture |-> NullTexture,
              useSortedIndices |-> FALSE,
              node |-> [useSorted |-> FALSE, tex |-> Placeholder],
              u |-> renderU, builds |-> 0,
              last |-> "constructor", prevTexture |-> NullTexture]

\* RenderComputePass.setSortedIndicesStorage(sortedIndicesStorage)
SetSortedIndicesStorage(sortedIndicesStorage) ==
  /\ probe.fn = "render"
  /\ probe' = [probe EXCEPT
       !.useSortedIndices = (sortedIndicesStorage # "null"),
       !.last = "setSortedIndicesStorage"]
  /\ UNCHANGED <<pipeVars, sortRun>>

\* RenderComputePass.update(params) up to its dispatch: uniforms, then the
\* texture test and the rebuild. prevTexture records the texture argument.
RenderUpdate(numSplats, tex, cam, minPixelRadius) ==
  /\ probe.fn = "render"
  /\ LET rebuild == RebuildNeeded(probe.currentTexture, tex)
     IN  /\ rebuild => probe.builds < MaxBuilds
         /\ probe' = [probe EXCEPT
              !.u = RenderUniforms(numSplats, cam,
                      [Tunables EXCEPT !.minPixelRadius = minPixelRadius]),
              !.currentTexture = IF rebuild THEN tex ELSE @,
              !.node = IF rebuild
                       THEN [useSorted |-> probe.useSortedIndices,
                             tex |-> tex]
                       ELSE @,
              !.builds = IF rebuild THEN @ + 1 ELSE @,
              !.last = "update",
              !.prevTexture = tex]
  /\ UNCHANGED <<pipeVars, sortRun>>

RebuildNext ==
  \/ \E sortedIndicesStorage \in StorageArgs :
       SetSortedIndicesStorage(sortedIndicesStorage)
  \/ \E numSplats \in 1..MaxSplats : \E tex \in Textures :
       \E cam \in Cameras : \E minPixelRadius \in ProbeMinRadii :
         RenderUpdate(numSplats, tex, cam, minPixelRadius)

SpecRebuild == RebuildInit /\ [][RebuildNext]_vars

\* C14: RenderComputePass.update rebuilds the kernel exactly when its
\* texture argument is not the one of the previous update (the first update
\* has no previous one); an update that changes only numSplats or tunables,
\* and setSortedIndicesStorage, never rebuild.
C14_RebuildIffTextureChanged ==
  [][probe.fn = "render" =>
       /\ probe'.last = "update" =>
            ((probe'.builds # probe.builds)
               <=> (probe'.prevTexture # probe.prevTexture))
       /\ probe'.last = "setSortedIndicesStorage" =>
            (probe'.builds = probe.builds /\ probe'.node = probe.node)]_vars

\* C14 witness: the kernel has been rebuilt twice, the uniforms hold
\* non-default values, and setSortedIndicesStorage has since set a flag that
\* differs from the one the kernel captured.
C14_Witness ==
  /\ probe.fn = "render" /\ probe.builds = 2
  /\ probe.last = "setSortedIndicesStorage"
  /\ probe.u.numSplats = 2 /\ probe.u.minPixelRadius > 0
  /\ probe.node.useSorted # probe.useSortedIndices

----------------------------------------------------------------------------
(* The packed-splat codec: unsigned 32-bit words as <<high 16, low 16>>    *)

U32(hi, lo) == <<hi, lo>>

\* a & b and a | b on 16-bit halves, bit by bit.
RECURSIVE And16(_, _)
And16(a, b) ==
  IF a = 0 \/ b = 0 THEN 0
  ELSE (IF a % 2 = 1 /\ b % 2 = 1 THEN 1 ELSE 0)
         + 2 * And16(a \div 2, b \div 2)

RECURSIVE Or16(_, _)
Or16(a, b) ==
  IF a = 0 THEN b
  ELSE IF b = 0 THEN a
  ELSE (IF a % 2 = 1 \/ b % 2 = 1 THEN 1 ELSE 0)
         + 2 * Or16(a \div 2, b \div 2)

\* bitAnd, bitOr and shiftRight of the shading language on uint.
BitAnd(a, b) == <<And16(a[1], b[1]), And16(a[2], b[2])>>
BitOr(a, b) == <<Or16(a[1], b[1]), Or16(a[2], b[2])>>
ShiftRight(w, k) ==
  IF k >= 16 THEN <<0, w[1] \div (2 ^ (k - 16))>>
  ELSE <<w[1] \div (2 ^ k),
         (w[2] \div (2 ^ k)) + (w[1] % (2 ^ k)) * (2 ^ (16 - k))>>

\* float(x) and int(x) of a uint below 2^31.
UintValue(w) == w[1] * 65536 + w[2]

\* The fold of a quantised coordinate into [-1, 1] with the wrong divisor:
\* 2 * quant / 254 - 1, in units of 1/254.
FoldedCoord_Div254(quant) == 2 * quant - 254

\* sub(mul(div(float(quant), 255.0), 2.0), 1.0), in units of 1/255.
FoldedCoord(quant) == 2 * quant - 255

\* decodeQuatOctXy88R8: the fields, the folded coordinates and the axis
\* before normalisation (all in units of 1/255), the angle code, and
\* whether normalize() has a nonzero vector to work on.
DecodeQuatOctXy88R8(encoded) ==
  LET quantU   == UintValue(BitAnd(encoded, U32(0, 255)))
      quantV   == UintValue(BitAnd(ShiftRight(encoded, 8), U32(0, 255)))
      angleInt == UintValue(ShiftRight(encoded, 16))
      fx       == FoldedCoord(quantU)
      fy       == FoldedCoord(quantV)
      axisZ    == (255 - Abs(fx)) - Abs(fy)
      t        == IF 0 - axisZ > 0 THEN 0 - axisZ ELSE 0
      axisX    == fx + (IF fx >= 0 THEN 0 - t ELSE t)
      axisY    == fy + (IF fy >= 0 THEN 0 - t ELSE t)
  IN  [quantU |-> quantU, quantV |-> quantV, angleInt |-> angleInt,
       f |-> <<fx, fy>>, axis |-> <<axisX, axisY, axisZ>>,
       normalized |-> (<<axisX, axisY, axisZ>> # <<0, 0, 0>>)]

\* The smallest x (times 254) whose single-precision exp(x) is not 0.
ExpUnderflow254 == (0 - 104) * 254

\* The sign of exp(x / 254) in single precision.
ExpSign(x254) ==
  IF ~IsNum(x254) THEN NaN ELSE IF x254 < ExpUnderflow254 THEN 0 ELSE 1

\* decodeScale without the zero test: always the exponential.
DecodeScale_NoSentinel(uScale, lnScaleMin, lnScaleMax) ==
  [zero |-> FALSE,
   ln254 |-> Add(Mul(254, lnScaleMin),
                 Mul(uScale - 1, Sub(lnScaleMax, lnScaleMin)))]

\* decodeScale: select(uScale == 0, 0.0, exp(lnScaleMin + (uScale - 1) *
\* (lnScaleMax - lnScaleMin) / 254)); the exponent is kept times 254.
DecodeScale(uScale, lnScaleMin, lnScaleMax) ==
  IF uScale = 0
  THEN [zero |-> TRUE, ln254 |-> 0]
  ELSE [zero |-> FALSE,
        ln254 |-> Add(Mul(254, lnScaleMin),
                      Mul(uScale - 1, Sub(lnScaleMax, lnScaleMin)))]

\* The sign of a decoded scale: 0 exactly for the sentinel.
ScaleSign(scale) == IF scale.zero THEN 0 ELSE ExpSign(scale.ln254)

\* The high byte of the orientation code taken without its mask.
QuatUpper_Unmasked(word3) == ShiftRight(word3, 8)

\* bitAnd(shiftRight(word3, 8), 0xff0000)
QuatUpper(word3) == BitAnd(ShiftRight(word3, 8), U32(255, 0))

\* unpackSplatEncoding: colour codes, the half-float bit patterns of the
\* center, the decoded scales, the 24-bit orientation code and its decode.
UnpackSplatEncoding(packed, lnScaleMin, lnScaleMax) ==
  LET word0 == packed[1]
      word1 == packed[2]
      word2 == packed[3]
      word3 == packed[4]
      uR == UintValue(BitAnd(word0, U32(0, 255)))
      uG == UintValue(BitAnd(ShiftRight(word0, 8), U32(0, 255)))
      uB == UintValue(BitAnd(ShiftRight(word0, 16), U32(0, 255)))
      uA == UintValue(ShiftRight(word0, 24))
      centerZPart == BitAnd(word2, U32(0, 65535))
      uScaleX == UintValue(BitAnd(word3, U32(0, 255)))
      uScaleY == UintValue(BitAnd(ShiftRight(word3, 8), U32(0, 255)))
      uScaleZ == UintValue(BitAnd(ShiftRight(word3, 16), U32(0, 255)))
      quatLower == BitAnd(ShiftRight(word2, 16), U32(0, 65535))
      quatUpper == QuatUpper(word3)
      uQuat == BitOr(quatLower, quatUpper)
  IN  [rgba |-> <<uR, uG, uB, uA>>,
       center |-> <<word1[2], word1[1], centerZPart[2]>>,
       uScale |-> <<uScaleX, uScaleY, uScaleZ>>,
       scales |-> <<DecodeScale(uScaleX, lnScaleMin, lnScaleMax),
                    DecodeScale(uScaleY, lnScaleMin, lnScaleMax),
                    DecodeScale(uScaleZ, lnScaleMin, lnScaleMax)>>,
       uQuat |-> uQuat,
       quaternion |-> DecodeQuatOctXy88R8(uQuat)]

\* Scale codes, orientation codes, center.z bit patterns and filler words
\* put into the packed words.
ScaleCodes == {0, 1, 255}
OctCodes == {0, 127, 128, 255}
AngleCodes == {0, 165, 255}
HalfBits == {0, 65535}
FillerWords == {U32(0, 0), U32(65535, 65535)}

\* (lnScaleMin, lnScaleMax): the layout's range, an empty range, a reversed
\* range and a range that is not a number.
LnScaleRanges == {<<0 - 12, 9>>, <<0, 0>>, <<9, 0 - 12>>, <<NaN, 9>>}

\* Packed texels: every orientation pair (u, v) in otherwise empty words,
\* and every combination of the sampled fields.
OctInputs ==
  {<<U32(0, 0), U32(0, 0), U32(v * 256 + u, 0), U32(0, 0)>> :
     u \in 0..255, v \in 0..255}
FieldInputs ==
  {<<w, w, U32(uv[2] * 256 + uv[1], z),
     U32(a * 256 + sc[3], sc[2] * 256 + sc[1])>> :
     w \in FillerWords, uv \in OctCodes \X OctCodes, z \in HalfBits,
     a \in AngleCodes, sc \in ScaleCodes \X ScaleCodes \X ScaleCodes}

\* Decode calls: the orientation pairs under the layout's scale range, the
\* field combinations under every range.
CodecInputs ==
  (OctInputs \X {<<0 - 12, 9>>}) \cup (FieldInputs \X LnScaleRanges)

\* One texel and one scale range handed to the decode.
UnpackCall(in) ==
  [fn |-> "unpack", packed |-> in[1], lnScaleMin |-> in[2][1],
   lnScaleMax |-> in[2][2], out |-> <<>>]

CodecInit ==
  /\ Init!1 /\ Init!2 /\ SortPassInit /\ RenderPassInit
  /\ sortRun = NoSortRun
  /\ \E in \in CodecInputs : probe = UnpackCall(in)

\* The same with the field combinations only.
CodecFieldsInit ==
  /\ Init!1 /\ Init!2 /\ SortPassInit /\ RenderPassInit
  /\ sortRun = NoSortRun
  /\ \E in \in FieldInputs \X LnScaleRanges : probe = UnpackCall(in)

RunUnpack ==
  /\ probe.fn = "unpack"
  /\ probe.out = <<>>
  /\ probe' = [probe EXCEPT !.out =
       UnpackSplatEncoding(probe.packed, probe.lnScaleMin, probe.lnScaleMax)]
  /\ UNCHANGED <<pipeVars, sortRun>>

CodecNext == RunUnpack

SpecCodec == CodecInit /\ [][CodecNext]_vars

SpecCodecFields == CodecFieldsInit /\ [][CodecNext]_vars

\* The decode of the probe has run.
Unpacked == probe.fn = "unpack" /\ probe.out # <<>>

----------------------------------------------------------------------------
(* Splat index to texel coordinate, as each of its three sites computes it *)

SPLAT_TEX_WIDTH_BITS == 11
SPLAT_TEX_HEIGHT_BITS == 11
SPLAT_TEX_LAYER_BITS == SPLAT_TEX_WIDTH_BITS + SPLAT_TEX_HEIGHT_BITS
SPLAT_TEX_WIDTH_MASK == (2 ^ SPLAT_TEX_WIDTH_BITS) - 1
SPLAT_TEX_HEIGHT_MASK == (2 ^ SPLAT_TEX_HEIGHT_BITS) - 1

\* splatTexCoord with the layer taken from the row bits only.
SplatTexCoord_NoLayer(index) ==
  <<UintValue(BitAnd(index, U32(0, SPLAT_TEX_WIDTH_MASK))),
    UintValue(BitAnd(ShiftRight(index, SPLAT_TEX_WIDTH_BITS),
                     U32(0, SPLAT_TEX_HEIGHT_MASK))),
    0>>

\* splatTexCoord(index) of tslHelpers
SplatTexCoord(index) ==
  LET x == BitAnd(index, U32(0, SPLAT_TEX_WIDTH_MASK))
      y == BitAnd(ShiftRight(index, SPLAT_TEX_WIDTH_BITS),
                  U32(0, SPLAT_TEX_HEIGHT_MASK))
      z == ShiftRight(index, SPLAT_TEX_LAYER_BITS)
  IN  <<UintValue(x), UintValue(y), UintValue(z)>>

\* ix, iy, iz of the distance kernel
DistanceTexCoord(splatIdx) ==
  LET ix == UintValue(BitAnd(splatIdx, U32(0, SPLAT_TEX_WIDTH_MASK)))
      iy == UintValue(BitAnd(ShiftRight(splatIdx, SPLAT_TEX_WIDTH_BITS),
                             U32(0, SPLAT_TEX_HEIGHT_MASK)))
      iz == UintValue(ShiftRight(splatIdx, SPLAT_TEX_LAYER_BITS))
  IN  <<ix, iy, iz>>

\* texCoord of the projection kernel
ProjectionTexCoord(actualIdx) ==
  LET ix == UintValue(BitAnd(actualIdx, U32(0, SPLAT_TEX_WIDTH_MASK)))
      iy == UintValue(BitAnd(ShiftRight(actualIdx, SPLAT_TEX_WIDTH_BITS),
                             U32(0, SPLAT_TEX_HEIGHT_MASK)))
      iz == UintValue(ShiftRight(actualIdx, SPLAT_TEX_LAYER_BITS))
  IN  <<ix, iy, iz>>

\* Unsigned 32-bit indices: the halves around the field boundaries (bit 11
\* in the low half, bit 22 = bit 6 of the high half) and the extremes.
IndexHalvesHigh == {0, 1, 63, 64, 32768, 65535}
IndexHalvesLow == {0, 1, 2047, 2048, 63488, 65535}
Indices == {U32(hi, lo) : hi \in IndexHalvesHigh, lo \in IndexHalvesLow}

NoCoord == <<>>

CoordInit ==
  /\ Init!1 /\ Init!2 /\ SortPassInit /\ RenderPassInit
  /\ sortRun = NoSortRun
  /\ \E index \in Indices :
       probe = [fn |-> "coord", index |-> index, helper |-> NoCoord,
                distance |-> NoCoord, projection |-> NoCoord]

RunSplatTexCoord ==
  /\ probe.fn = "coord" /\ probe.helper = NoCoord
  /\ probe' = [probe EXCEPT !.helper = SplatTexCoord(probe.index)]
  /\ UNCHANGED <<pipeVars, sortRun>>

RunDistanceTexCoord ==
  /\ probe.fn = "coord" /\ probe.distance = NoCoord
  /\ probe' = [probe EXCEPT !.distance = DistanceTexCoord(probe.index)]
  /\ UNCHANGED <<pipeVars, sortRun>>

RunProjectionTexCoord ==
  /\ probe.fn = "coord" /\ probe.projection = NoCoord
  /\ probe' = [probe EXCEPT !.projection = ProjectionTexCoord(probe.index)]
  /\ UNCHANGED <<pipeVars, sortRun>>

CoordNext ==
  \/ RunSplatTexCoord
  \/ RunDistanceTexCoord
  \/ RunProjectionTexCoord

SpecCoord == CoordInit /\ [][CoordNext]_vars

\* w << k and a + b on unsigned 32-bit words.
ShiftLeft(w, k) ==
  IF k >= 16 THEN <<(w[2] * (2 ^ (k - 16))) % 65536, 0>>
  ELSE <<((w[1] * (2 ^ k)) % 65536) + (w[2] \div (2 ^ (16 - k))),
         (w[2] * (2 ^ k)) % 65536>>
AddU32(a, b) ==
  <<(a[1] + b[1] + ((a[2] + b[2]) \div 65536)) % 65536,
    (a[2] + b[2]) % 65536>>

\* x + (y << 11) + (z << 22) of a coordinate.
IndexOfCoord(c) ==
  AddU32(AddU32(U32(0, c[1]), ShiftLeft(U32(0, c[2]), 11)),
         ShiftLeft(U32(0, c[3]), 22))

\* The coordinates computed so far for the probe's index.
CoordsComputed ==
  {c \in {probe.helper, probe.distance, probe.projection} : c # NoCoord}

----------------------------------------------------------------------------
(* createRenderer: renderer choice and fallback                            *)

\* What the page and the browser give one createRenderer() call: the URL
\* parameters, navigator.gpu, the outcome of requestAdapter(), and whether
\* import("three/webgpu"), new WebGPURenderer(), renderer.init() and
\* new WebGLRenderer() succeed.
RendererEnvs ==
  [url : [webgpu : BOOLEAN, webgl : BOOLEAN], gpu : BOOLEAN,
   adapter : {"adapter", "null", "throws"}, importWebGPU : BOOLEAN,
   construct : BOOLEAN, init : BOOLEAN, webgl : BOOLEAN]

NoRenderer == [id |-> 0, kind |-> "none", _sparkRendererType |-> "none"]

GetRendererPreference(url) ==
  IF url.webgpu THEN "webgpu" ELSE IF url.webgl THEN "webgl" ELSE "auto"

IsWebGPUAvailable(env) ==
  IF ~env.gpu THEN FALSE
  ELSE IF env.adapter = "throws" THEN FALSE
  ELSE env.adapter # "null"

\* A createRenderer() call about to start under env.
RendererCall(env, calls, current) ==
  [fn |-> "renderer", pc |-> "start", env |-> env, calls |-> calls,
   preference |-> "unknown", webgpuAvailable |-> FALSE,
   pending |-> NoRenderer, result |-> NoRenderer, error |-> "none",
   currentRenderer |-> current]

\* Module load, then the first call.
RendererInit ==
  /\ Init!1 /\ Init!2 /\ SortPassInit /\ RenderPassInit
  /\ sortRun = NoSortRun
  /\ \E env \in RendererEnvs : probe = RendererCall(env, 1, NoRenderer)

\* The WebGL path at the end of createRenderer: construct, flag, track,
\* return; a throwing constructor rejects the call.
CreateWebGL(p) ==
  IF p.env.webgl
  THEN LET renderer == [id |-> p.calls, kind |-> "WebGLRenderer",
                        _sparkRendererType |-> "webgl"]
       IN  [p EXCEPT !.pc = "resolved", !.result = renderer,
                     !.currentRenderer = renderer, !.pending = NoRenderer]
  ELSE [p EXCEPT !.pc = "rejected", !.error = "webgl",
                 !.pending = NoRenderer]

\* The WebGPU failure leaves createRenderer as a rejection.
CatchWebGPUFailure_Rethrow(p) ==
  [p EXCEPT !.pc = "rejected", !.error = "webgpu", !.pending = NoRenderer]

\* catch (error) { console.error; console.warn } and on to the WebGL path.
CatchWebGPUFailure(p) == CreateWebGL(p)

\* Up to the await of isWebGPUAvailable(): import("three"), the preference.
RendererStart ==
  /\ probe.fn = "renderer" /\ probe.pc = "start"
  /\ probe' = [probe EXCEPT !.pc = "requestAdapter",
                            !.preference = GetRendererPreference(probe.env.url)]
  /\ UNCHANGED <<pipeVars, sortRun>>

\* isWebGPUAvailable() settles; the call goes on to the WebGPU attempt or
\* straight to the WebGL path.
RendererAvailability ==
  /\ probe.fn = "renderer" /\ probe.pc = "requestAdapter"
  /\ LET available == IsWebGPUAvailable(probe.env)
         p == [probe EXCEPT !.webgpuAvailable = available]
     IN  probe' = IF p.preference = "webgpu" /\ available
                  THEN [p EXCEPT !.pc = "importWebGPU"]
                  ELSE CreateWebGL(p)
  /\ UNCHANGED <<pipeVars, sortRun>>

\* import("three/webgpu") settles and the renderer is constructed.
RendererConstruct ==
  /\ probe.fn = "renderer" /\ probe.pc = "importWebGPU"
  /\ probe' = IF probe.env.importWebGPU /\ probe.env.construct
              THEN [probe EXCEPT !.pc = "init",
                      !.pending = [id |-> probe.calls,
                                   kind |-> "WebGPURenderer",
                                   _sparkRendererType |-> "none"]]
              ELSE CatchWebGPUFailure(probe)
  /\ UNCHANGED <<pipeVars, sortRun>>

\* renderer.init() settles.
RendererInitDone ==
  /\ probe.fn = "renderer" /\ probe.pc = "init"
  /\ probe' = IF probe.env.init
              THEN LET renderer == [probe.pending EXCEPT
                                      !._sparkRendererType = "webgpu"]
                   IN  [probe EXCEPT !.pc = "resolved", !.result = renderer,
                                     !.currentRenderer = renderer,
                                     !.pending = NoRenderer]
              ELSE CatchWebGPUFailure(probe)
  /\ UNCHANGED <<pipeVars, sortRun>>

\* disposeRenderer(), or the beforeunload listener.
DisposeRenderer ==
  /\ probe.fn = "renderer"
  /\ probe.currentRenderer # NoRenderer
  /\ probe' = [probe EXCEPT !.currentRenderer = NoRenderer]
  /\ UNCHANGED <<pipeVars, sortRun>>

\* A further createRenderer() call once the previous one has settled.
RendererCallAgain ==
  /\ probe.fn = "renderer"
  /\ probe.pc \in {"resolved", "rejected"}
  /\ probe.calls < MaxCalls
  /\ \E env \in RendererEnvs :
       probe' = RendererCall(env, probe.calls + 1, probe.currentRenderer)
  /\ UNCHANGED <<pipeVars, sortRun>>

RendererNext ==
  \/ RendererStart
  \/ RendererAvailability
  \/ RendererConstruct
  \/ RendererInitDone
  \/ DisposeRenderer
  \/ RendererCallAgain

SpecRenderer == RendererInit /\ [][RendererNext]_vars

\* C21: createRenderer returns a WebGPU renderer only when the URL has
\* ?webgpu, an adapter is available and import, construction and init()
\* succeed; in every other case it goes to the WebGL path and returns a
\* WebGL renderer; a WebGPU failure never rejects the call; at the step that
\* returns, currentRenderer is the returned renderer and its
\* _sparkRendererType matches its kind.
C21_RendererFallback ==
  [][(probe.fn = "renderer" /\ probe.pc \notin {"resolved", "rejected"} /\
      probe'.pc \in {"resolved", "rejected"}) =>
       LET env == probe.env
           webgpuWorks ==
             /\ env.url.webgpu
             /\ env.gpu /\ env.adapter = "adapter"
             /\ env.importWebGPU /\ env.construct /\ env.init
       IN  /\ probe'.error # "webgpu"
           /\ probe'.pc = "rejected" => (~webgpuWorks /\ ~env.webgl)
           /\ probe'.pc = "resolved" =>
                /\ probe'.result.id = probe.calls
                /\ probe'.currentRenderer = probe'.result
                /\ webgpuWorks =>
                     /\ probe'.result.kind = "WebGPURenderer"
                     /\ probe'.result._sparkRendererType = "webgpu"
                /\ ~webgpuWorks =>
                     /\ probe'.result.kind = "WebGLRenderer"
                     /\ probe'.result._sparkRendererType = "webgl"
    ]_vars

\* C21 witness: a second call asked for WebGPU with an adapter present, its
\* init() failed, and it returned a WebGL renderer, now the tracked one.
C21_Witness ==
  /\ probe.fn = "renderer" /\ probe.pc = "resolved" /\ probe.calls = 2
  /\ probe.env.url.webgpu /\ probe.webgpuAvailable
  /\ probe.env.importWebGPU /\ probe.env.construct /\ ~probe.env.init
  /\ probe.result.kind = "WebGLRenderer"
  /\ probe.currentRenderer = probe.result

----------------------------------------------------------------------------
(* Properties of the sort                                                  *)

\* The key of the splat the uploaded index array names at position i.
KeyAt(i) == Rd(distBuffer, Rd(sortedArray, i))

\* positions 0..n-1 of arr hold each of 0..n-1 exactly once.
IsBijection(arr, n) ==
  \A k \in 0..(n - 1) :
    Cardinality({i \in 0..(n - 1) : Rd(arr, i) = k}) = 1

\* The results the sort-only run has produced so far.
SortResults == {r \in {sortRun.ins, sortRun.arr} : r # <<>>}

\* C1: after either branch of the sort, the keys read through the sorted
\* index array are in non-increasing order: for all 0 <= i < j < n,
\* keys[perm[i]] >= keys[perm[j]].  Stated here for the finite keys only (a
\* pair with a NaN key is not counted against the order).
C1_SortedDescending ==
  \A r \in SortResults :
    \A i \in 0..(sortRun.n - 1) : \A j \in 0..(sortRun.n - 1) :
      (i < j /\ IsNum(sortRun.keys[r[i]]) /\ IsNum(sortRun.keys[r[j]]))
        => sortRun.keys[r[i]] >= sortRun.keys[r[j]]

\* C2: after either branch of the sort, positions 0..n-1 of the index array
\* hold every integer of [0, n) exactly once, for every n from 0 up and
\* every key array.
C2_SortedIsBijection ==
  \A r \in SortResults : IsBijection(r, sortRun.n)

\* C2 witness: both branches have sorted a full array and moved something.
C2_Witness ==
  /\ sortRun.n = SortLen
  /\ sortRun.ins # <<>> /\ sortRun.arr # <<>>
  /\ sortRun.ins # Identity(SortLen)
  /\ sortRun.arr # Identity(SortLen)


----------------------------------------------------------------------------
(* Properties of the frame update                                          *)

\* C5: within one update() with numSplats > 0 the three phases are ordered:
\* the sort reads a distance buffer the distance dispatch of this frame has
\* completely written; the projection is dispatched only from the readback
\* point, with the sorted indices of a successful sort already uploaded in
\* full; and the vertex batch and draw range change only when the projection
\* dispatch completes.
C5_PhasesOrdered ==
  [][/\ (indicesArray' # indicesArray \/ sortedArray' # sortedArray
           \/ (~call.sorted /\ call'.sorted))
          => /\ pc = "readback"
             /\ sortU.numSplats = call.numSplats
             /\ distBuffer = DistanceKernel(sortU)
     /\ (pc' = "project")
          => /\ pc = "readback"
             /\ call'.sorted =>
                  sortedArray' =
                    Upload(sortedArray, indicesArray', call.numSplats)
     /\ (distBuffer' # distBuffer) => pc = "distance"
     /\ (buf' # buf \/ (drawRange' # drawRange /\ call'.numSplats > 0))
          => /\ pc = "project"
             /\ pc' = "idle"
             /\ buf' = ProjectionKernel(buf, renderU, node, sortedArray, 0)
             /\ drawRange' = <<0, call.numSplats * 6>>
    ]_vars

\* C5 witness: an update with a successful sort has run through all three
\* phases and set the draw range.
C5_Witness ==
  /\ pc = "idle"
  /\ call.sorted /\ call.settled = "resolved"
  /\ call.numSplats \in 2..MaxSplats
  /\ sortedArray # [i \in 0..(MaxSplats - 1) |-> 0]
  /\ drawRange = <<0, call.numSplats * 6>>

\* C3: an update whose distance readback fails is abandoned: when it ends,
\* the vertex batch and the draw range are exactly as the previous completed
\* update (one that drew something) left them.
C3_FailedReadbackAbandonsFrame ==
  [][(pc = "project" /\ ~call.sorted /\ drawRange # <<0, 0>> /\ pc' = "idle") =>
       (buf' = buf /\ drawRange' = drawRange)]_vars

\* C4: whenever the projection stage runs, over any sequence of update()
\* calls, the sorted index array it reads holds a bijection on
\* [0, numSplats) of the frame being projected.
C4_ProjectionReadsBijection ==
  (pc = "project") => IsBijection(sortedArray, renderU.numSplats)

\* C6: after an update whose sort succeeded, for every slot i < numSplats the
\* vertices 4i..4i+3 of the batch are the four corners computed from the
\* splat perm[i], and slot 0 is drawn from the splat with the largest key.
C6_VerticesFollowPermutation ==
  [][(pc = "project" /\ call.sorted /\ pc' = "idle") =>
       /\ \A i \in 0..(call.numSplats - 1) :
            /\ i \in DOMAIN sortedArray
            /\ LET out == ProjectSplat(renderU,
                            [useSorted |-> TRUE, tex |-> call.tex],
                            sortedArray, i)
               IN  \A k \in 1..4 :
                     LET v == 4 * i + (k - 1)
                     IN  /\ VertexPosition(buf'.pos, v) = out.pos[k]
                         /\ buf'.color[v] = out.color[k]
                         /\ buf'.uv[v] = out.uv[k]
       /\ \A j \in 0..(call.numSplats - 1) : Ge(KeyAt(0), Rd(distBuffer, j))
    ]_vars

\* C7: update() with numSplats == 0 sets the draw range to (0, 0) and
\* returns at once: no stage is dispatched, and the sorted indices, vertex
\* buffers and uniforms stay as they were.
C7_EmptyUpdateShortCircuits ==
  [][(pc = "idle" /\ call'.numSplats = 0) =>
       /\ pc' = "idle"
       /\ call'.settled = "resolved"
       /\ drawRange' = <<0, 0>>
       /\ UNCHANGED <<sortU, distBuffer, indicesArray, sortedArray, renderU,
                      node, currentTexture, useSortedIndices, buf>>
    ]_vars

\* C7 witness: an empty update has returned after a frame that drew
\* something, with that frame's buffers retained.
C7_Witness ==
  /\ pc = "idle"
  /\ call.numSplats = 0 /\ call.settled = "resolved"
  /\ renderU.numSplats > 0
  /\ \E v \in DOMAIN buf.color : buf.color[v] # DegenerateColor
  /\ drawRange = <<0, 0>>

\* C8: an update() with numSplats above maxSplats is reported to the caller:
\* it does not settle as an ordinary resolved update.
C8_CapacityExceededReported ==
  (call.numSplats > MaxSplats /\ call.settled # "pending")
    => call.settled = "rejected"

\* C9: the two branches of the sort, fed the same key array, leave the same
\* sequence of keys.
C9_BranchesAgree ==
  (sortRun.ins # <<>> /\ sortRun.arr # <<>>) =>
    \A i \in 0..(sortRun.n - 1) :
      sortRun.keys[sortRun.ins[i]] = sortRun.keys[sortRun.arr[i]]

\* C10: when the projection completes, every slot whose splat failed a gate
\* holds the sentinel in all four vertices: position (0, 0, 2), color
\* (0, 0, 0, 0), uv (0, 0).
C10_RejectedSplatIsSentinel ==
  [][(pc = "project" /\ pc' = "idle") =>
       \A i \in 0..(MaxSplats - 1) :
         ~ProjectSplat(renderU, node, sortedArray, i).isValid =>
           \A k \in 1..4 :
             LET v == 4 * i + (k - 1)
             IN  /\ VertexPosition(buf'.pos, v) = DegeneratePos
                 /\ buf'.color[v] = DegenerateColor
                 /\ buf'.uv[v] = DegenerateUv
    ]_vars

\* C12: once the distance stage has run, every padding index i >= numSplats
\* holds a key that ranks it last under the Sorter's descending order: the
\* comparator never places a padding index before a valid one.
C12_PaddingKeyRanksLast ==
  pc = "readback" =>
    \A i \in 0..(MaxSplats - 1) : \A j \in 0..(MaxSplats - 1) :
      (i >= sortU.numSplats /\ j < sortU.numSplats) =>
        CompareFn(distBuffer, j, i) <= 0

\* C13: index-buffer entries 6i..6i+5 are 4i + (0, 1, 2, 0, 2, 3) and no
\* step modifies them; the draw range is (0, 0) until the first update; every
\* update with numSplats = n > 0 that completes leaves the draw range at
\* exactly (0, 6n).
C13_WholeQuads ==
  /\ drawRange = <<0, 0>>
  /\ [](\A i \in 0..(MaxSplats - 1) :
          /\ indexBuffer[6 * i] = 4 * i
          /\ indexBuffer[6 * i + 1] = 4 * i + 1
          /\ indexBuffer[6 * i + 2] = 4 * i + 2
          /\ indexBuffer[6 * i + 3] = 4 * i
          /\ indexBuffer[6 * i + 4] = 4 * i + 2
          /\ indexBuffer[6 * i + 5] = 4 * i + 3)
  /\ [][/\ indexBuffer' = indexBuffer
        /\ (pc # "idle" /\ pc' = "idle" /\ call'.settled = "resolved") =>
             drawRange' = <<0, 6 * call.numSplats>>]_vars

\* C13 witness: an update of two splats has completed on a pipeline of
\* more slots, and twelve indices are drawn.
C13_Witness ==
  /\ pc = "idle" /\ call.settled = "resolved"
  /\ call.numSplats = 2 /\ call.numSplats < MaxSplats
  /\ drawRange = <<0, 12>>

\* C15: a scale code 0 decodes to exactly 0 whatever (lnScaleMin,
\* lnScaleMax) is; a code 1..255 decodes to exp(lnScaleMin + (code - 1) *
\* (lnScaleMax - lnScaleMin) / 254), strictly positive for a numeric range;
\* a word3 whose low 24 bits are zero decodes to scale (0, 0, 0) whatever
\* its top 8 bits are.
C15_ZeroScaleSentinel ==
  Unpacked =>
    /\ \A k \in 1..3 :
         LET code == probe.out.uScale[k]
             scale == probe.out.scales[k]
         IN  /\ code = 0 => (scale.zero /\ ScaleSign(scale) = 0)
             /\ code # 0 =>
                  /\ ~scale.zero
                  /\ scale.ln254 =
                       Add(Mul(254, probe.lnScaleMin),
                           Mul(code - 1,
                               Sub(probe.lnScaleMax, probe.lnScaleMin)))
                  /\ (IsNum(probe.lnScaleMin) /\ IsNum(probe.lnScaleMax))
                       => ScaleSign(scale) = 1
    /\ (probe.packed[4][2] = 0 /\ probe.packed[4][1] % 256 = 0) =>
         \A k \in 1..3 : ScaleSign(probe.out.scales[k]) = 0

\* C15 witness: a word3 with zero scale bits under nonzero top bits has been
\* decoded with a range that is not a number.
C15_Witness ==
  /\ Unpacked
  /\ probe.packed[4] = U32(255 * 256, 0)
  /\ ~IsNum(probe.lnScaleMin)
  /\ \A k \in 1..3 : probe.out.scales[k].zero

\* C16: splatTexCoord, the distance kernel and the projection kernel compute
\* the same coordinate x = index & 0x7FF, y = (index >> 11) & 0x7FF,
\* z = index >> 22 for an index, and x + (y << 11) + (z << 22) gives the
\* index back for every unsigned 32-bit index, so the mapping is injective.
C16_CoordMappingAgreesAndInverts ==
  probe.fn = "coord" =>
    /\ \A c \in CoordsComputed : \A d \in CoordsComputed : c = d
    /\ \A c \in CoordsComputed :
         /\ c[1] \in 0..2047 /\ c[2] \in 0..2047 /\ c[3] \in 0..1023
         /\ IndexOfCoord(c) = probe.index
         /\ \A other \in Indices :
              SplatTexCoord(other) = c => other = probe.index

\* C16 witness: the three sites have computed the coordinate of the largest
\* index, whose three fields are all ones.
C16_Witness ==
  /\ probe.fn = "coord"
  /\ probe.index = U32(65535, 65535)
  /\ probe.helper = <<2047, 2047, 1023>>
  /\ probe.distance # NoCoord /\ probe.projection # NoCoord

\* C17: the 2D covariance the projection kernel computes follows the camera
\* type passed to update(): the orthographic path (XY block of the 3D
\* covariance times focal squared) for an orthographic camera, the
\* perspective Jacobian path for a perspective camera.
C17_ProjectionFollowsCameraType ==
  Projected =>
    probe.out.cov2D =
      ProjectCov3DTo2D(probe.out.viewCenter[1], probe.out.viewCenter[2],
                       probe.out.viewCenter[3], probe.out.cov3D[1],
                       probe.out.cov3D[2], probe.out.cov3D[3],
                       probe.out.focal[1], probe.out.focal[2],
                       ~probe.cam.isPerspectiveCamera)

\* C18: when the projection completes, every slot whose splat has
\* clip.w = 0 was gated invalid and holds the sentinel in all four vertices,
\* and every slot emitted as valid has clip.w > 0, which is its divisor.
C18_ZeroWNeverLeaks ==
  [][(pc = "project" /\ pc' = "idle") =>
       \A i \in 0..(MaxSplats - 1) :
         LET out == ProjectSplat(renderU, node, sortedArray, i)
         IN  /\ out.clipW = 0 =>
                  /\ ~out.isValid
                  /\ \A k \in 1..4 :
                       LET v == 4 * i + (k - 1)
                       IN  /\ VertexPosition(buf'.pos, v) = DegeneratePos
                           /\ buf'.color[v] = DegenerateColor
                           /\ buf'.uv[v] = DegenerateUv
             /\ out.isValid =>
                  (IsNum(out.clipW) /\ out.clipW > 0 /\ out.safeW = out.clipW)
    ]_vars

\* The packed texel with the center.z bits of word2 and the scale bits of
\* word3 replaced, and with the orientation bits of both replaced.
WithOtherFields(packed, zBits, scaleHigh, scaleLow) ==
  <<packed[1], packed[2], U32(packed[3][1], zBits),
    U32((packed[4][1] \div 256) * 256 + scaleHigh, scaleLow)>>
WithOrientation(packed, low16, high8) ==
  <<packed[1], packed[2], U32(low16, packed[3][2]),
    U32(high8 * 256 + (packed[4][1] % 256), packed[4][2])>>

\* What a decode result says about the orientation, and about the scales
\* and the center.
OrientationPart(r) == <<r.uQuat, r.quaternion>>
ScalePart(r) == <<r.uScale, r.scales, r.center>>

\* C19: the decoded 24-bit orientation code is (word2 >> 16) |
\* ((word3 >> 24) << 16), with u in bits 0..7, v in bits 8..15 and the angle
\* code in bits 16..23, so within 0..255; it is the same whatever the
\* center.z bits and the scale bits are, and the scale codes and center.z
\* are the same whatever the orientation bits are.
C19_OrientationBitLayout ==
  Unpacked =>
    LET word2 == probe.packed[3]
        word3 == probe.packed[4]
        q == probe.out.quaternion
        Decode(p) == UnpackSplatEncoding(p, probe.lnScaleMin, probe.lnScaleMax)
    IN  /\ probe.out.uQuat =
             BitOr(ShiftRight(word2, 16), ShiftLeft(ShiftRight(word3, 24), 16))
        /\ q.quantU = word2[1] % 256
        /\ q.quantV = word2[1] \div 256
        /\ q.angleInt = word3[1] \div 256
        /\ q.angleInt \in 0..255
        /\ \A zBits \in HalfBits : \A scaleBits \in {0, 65535} :
             LET other == Decode(WithOtherFields(probe.packed, zBits,
                                                 scaleBits % 256, scaleBits))
             IN  OrientationPart(other) = OrientationPart(probe.out)
        /\ \A low16 \in {0, 65535} : \A high8 \in {0, 255} :
             LET other == Decode(WithOrientation(probe.packed, low16, high8))
             IN  ScalePart(other) = ScalePart(probe.out)

\* C19 witness: a texel with all center.z and scale bits set has been
\* decoded to an orientation code with three different fields.
C19_Witness ==
  /\ Unpacked
  /\ probe.packed[3][2] = 65535
  /\ probe.out.uScale = <<255, 255, 255>>
  /\ probe.out.quaternion.quantU = 127
  /\ probe.out.quaternion.quantV = 128
  /\ probe.out.quaternion.angleInt = 165

\* C20: the decode yields a value for every texel: all four fields of the
\* result exist, and for every pair of codes (u, v) the folded coordinates
\* 2u - 255 and 2v - 255 are nonzero and the axis built before normalisation
\* is not the zero vector, so normalize() is defined.
C20_DecodeIsTotal ==
  Unpacked =>
    LET q == probe.out.quaternion
    IN  /\ DOMAIN probe.out =
             {"rgba", "center", "uScale", "scales", "uQuat", "quaternion"}
        /\ \A k \in 1..3 : ScaleSign(probe.out.scales[k]) \in {0, 1, NaN}
        /\ q.f[1] = 2 * q.quantU - 255 /\ q.f[1] # 0
        /\ q.f[2] = 2 * q.quantV - 255 /\ q.f[2] # 0
        /\ q.axis # <<0, 0, 0>>
        /\ q.normalized

\* C20 witness: the pair (0, 0) has been decoded: the fold cancels the x and
\* y components of the axis and leaves only z.
C20_Witness ==
  /\ Unpacked
  /\ probe.out.quaternion.quantU = 0 /\ probe.out.quaternion.quantV = 0
  /\ probe.out.quaternion.axis = <<0, 0, 0 - 255>>

C23_DispatchedKernelUsesSortedIndices ==
  pc = "project" =>
    /\ node.useSorted
    /\ useSortedIndices
    /\ node.tex # Placeholder
    /\ node.tex = call.tex

\* C23 witness: a kernel built by an earlier update is dispatched again,
\* after a failed readback, and still reads through the sorted indices.
C23_Witness ==
  /\ pc = "project"
  /\ ~call.sorted
  /\ drawRange # <<0, 0>>
  /\ node.useSorted

\* C24: when the projection completes, for every slot i and corner k the
\* position of vertex v = 4i + k is in components 3v..3v+2 of the position
\* attribute, the same vertex index v at which the color and the uv of that
\* vertex are.
C24_AttributesAligned ==
  [][(pc = "project" /\ pc' = "idle") =>
       \A i \in 0..(MaxSplats - 1) : \A k \in 1..4 :
         LET out == ProjectSplat(renderU, node, sortedArray, i)
             v == 4 * i + (k - 1)
         IN  /\ VertexPosition(buf'.pos, v) = out.pos[k]
             /\ buf'.color[v] = out.color[k]
             /\ buf'.uv[v] = out.uv[k]
    ]_vars

\* C25: when the projection completes with numSplats = n, every slot i with
\* n <= i < maxSplats holds the sentinel in all four vertices, whatever an
\* earlier frame left there; and the invocation of slot i changes no vertex
\* outside 4i..4i+3.
C25_NoStaleGeometry ==
  [][(pc = "project" /\ pc' = "idle") =>
       /\ \A i \in 0..(MaxSplats - 1) : \A k \in 1..4 :
            i >= renderU.numSplats =>
              LET v == 4 * i + (k - 1)
              IN  /\ VertexPosition(buf'.pos, v) = DegeneratePos
                  /\ buf'.color[v] = DegenerateColor
                  /\ buf'.uv[v] = DegenerateUv
       /\ \A i \in 0..(MaxSplats - 1) :
            LET after == WriteCorners(
                           buf, ProjectSplat(renderU, node, sortedArray, i),
                           i, 1)
            IN  \A v \in 0..(4 * MaxSplats - 1) :
                  (v < 4 * i \/ v > 4 * i + 3) =>
                    /\ VertexPosition(after.pos, v) = VertexPosition(buf.pos, v)
                    /\ after.color[v] = buf.color[v]
                    /\ after.uv[v] = buf.uv[v]
    ]_vars

(***************************************************************************)
(* SplatAccumulator: the mapping of generators to Gsplat ranges.           *)
(* A GeneratorMapping is a record (node, generator, version, base, count); *)
(* node and generator are object identities, an absent generator is Undef. *)
(***************************************************************************)
Nodes == {1, 2}
GeneratorValues == {Undef, 1, 2}
Versions == {1, 2}
Bases == {0, 1}
Counts == {0, 1, 2}

GeneratorMapping ==
  [node : Nodes, generator : GeneratorValues, version : Versions,
   base : Bases, count : Counts]

\* Entries of an earlier call, laid out one splat per node. One version,
\* one defined generator and one range per node are enough, since
\* generateSplats only compares them with the fields of the new entry.
EarlierMapping ==
  {e \in GeneratorMapping :
     /\ e.generator \in {Undef, 1} /\ e.version = 1
     /\ e.base = e.node - 1 /\ e.count = 1}

\* Lists of entries with one entry per node, as the callers build them.
MappingLists(entries) ==
  {<<>>} \cup {<<e>> : e \in entries}
         \cup {p \in entries \X entries : p[1].node # p[2].node}

EarlierLists == MappingLists(EarlierMapping)
GeneratorLists == MappingLists(GeneratorMapping)

\* mapping.get(node) on the lookup built by the reduce of lines 62-65: the
\* last record of the node wins, and a missing node yields undefined, whose
\* fields read through ?. are undefined.
NoRecord ==
  [node |-> Undef, generator |-> Undef, version |-> Undef,
   base |-> Undef, count |-> Undef]

MappingGet(mapping, n) ==
  LET at == {i \in 1..Len(mapping) : mapping[i].node = n}
  IN  IF at = {} THEN NoRecord
      ELSE mapping[CHOOSE i \in at : \A j \in at : j <= i]

\* The test of lines 72-78, version ignored.
IsDifferent_IgnoreVersion(entry, current, forceUpdate) ==
  \/ forceUpdate
  \/ entry.generator # current.generator
  \/ entry.base # current.base
  \/ entry.count # current.count

\* The test of lines 72-78.
IsDifferent(entry, current, forceUpdate) ==
  \/ forceUpdate
  \/ entry.generator # current.generator
  \/ entry.version # current.version
  \/ entry.base # current.base
  \/ entry.count # current.count

\* The test of line 80: generator && count > 0.
HasSplatsToGenerate(entry) == entry.generator # Undef /\ entry.count > 0

\* A catch block that swallows the error without touching the node.
CatchGenerateError_Swallow(nodes, n) == nodes

\* The catch block of lines 89-92.
CatchGenerateError(nodes, n) ==
  [nodes EXCEPT ![n] = [generator |-> Undef, generatorError |-> TRUE]]

\* One iteration of the loop of lines 70-97 on entry i; throws is the set of
\* nodes for which splats.generate throws.
GenerateStep(acc, lookup, generators, i, forceUpdate, throws) ==
  LET entry == generators[i]
      current == MappingGet(lookup, entry.node)
      run == /\ IsDifferent(entry, current, forceUpdate)
             /\ HasSplatsToGenerate(entry)
      thrown == run /\ entry.node \in throws
  IN  [updated   |-> IF run THEN acc.updated + 1 ELSE acc.updated,
       numSplats |-> IF entry.base + entry.count > acc.numSplats
                     THEN entry.base + entry.count ELSE acc.numSplats,
       ran       |-> Append(acc.ran, run),
       thrown    |-> IF thrown THEN acc.thrown \cup {entry.node}
                     ELSE acc.thrown,
       nodes     |-> IF thrown THEN CatchGenerateError(acc.nodes, entry.node)
                     ELSE acc.nodes]

RECURSIVE GenerateLoop(_, _, _, _, _, _)
GenerateLoop(acc, lookup, generators, i, forceUpdate, throws) ==
  IF i > Len(generators) THEN acc
  ELSE GenerateLoop(
         GenerateStep(acc, lookup, generators, i, forceUpdate, throws),
         lookup, generators, i + 1, forceUpdate, throws)

\* The accumulator after an earlier generateSplats over a list m; every
\* node still has its generator.
NodesInit == [n \in Nodes |-> [generator |-> 1, generatorError |-> FALSE]]

AccumulatorInit ==
  /\ Init!1 /\ Init!2 /\ SortPassInit /\ RenderPassInit
  /\ sortRun = NoSortRun
  /\ \E m \in EarlierLists :
       probe = [fn |-> "generateSplats", called |-> FALSE,
                mapping |-> m, toWorld |-> "earlier", nodes |-> NodesInit]

\* SplatAccumulator.generateSplats({ generators, forceUpdate, originToWorld })
GenerateSplats(generators, forceUpdate, throws) ==
  /\ LET out == GenerateLoop(
                  [updated |-> 0, numSplats |-> 0, ran |-> <<>>,
                   thrown |-> {}, nodes |-> probe.nodes],
                  probe.mapping, generators, 1, forceUpdate, throws)
     IN  probe' = [fn |-> "generateSplats", called |-> TRUE,
                   previous |-> probe.mapping,
                   generators |-> generators, forceUpdate |-> forceUpdate,
                   ran |-> out.ran, thrown |-> out.thrown,
                   nodes |-> out.nodes,
                   numSplats |-> out.numSplats,
                   toWorld |-> "originToWorld",
                   mapping |-> generators,
                   ret |-> (out.updated # 0)]
  /\ UNCHANGED <<pipeVars, sortRun>>

\* One call on each earlier accumulator.
AccumulatorNext ==
  /\ probe.fn = "generateSplats" /\ ~probe.called
  /\ \E generators \in GeneratorLists :
       \E forceUpdate \in BOOLEAN : \E throws \in SUBSET Nodes :
         GenerateSplats(generators, forceUpdate, throws)

SpecAccumulator == AccumulatorInit /\ [][AccumulatorNext]_vars

Generated == probe.fn = "generateSplats" /\ probe.called

\* C26: an entry is regenerated iff it has a defined generator and a positive
\* count and (forceUpdate is set, or its node has no entry in the previous
\* mapping, or generator, version, base or count differ from that entry);
\* the call returns true iff some entry was regenerated; afterwards mapping is
\* the given list and numSplats is the largest base + count, 0 for no entry.
C26_RunsExactlyTheChangedGenerators ==
  Generated =>
    LET g == probe.generators
        prevOf(n) == {e \in {probe.previous[j] : j \in 1..Len(probe.previous)} :
                        e.node = n}
    IN  /\ Len(probe.ran) = Len(g)
        /\ \A i \in 1..Len(g) :
             probe.ran[i] <=>
               /\ g[i].generator # Undef
               /\ g[i].count > 0
               /\ \/ probe.forceUpdate
                  \/ prevOf(g[i].node) = {}
                  \/ \E e \in prevOf(g[i].node) :
                       \/ e.generator # g[i].generator
                       \/ e.version # g[i].version
                       \/ e.base # g[i].base
                       \/ e.count # g[i].count
        /\ probe.ret <=> (\E i \in 1..Len(g) : probe.ran[i])
        /\ probe.mapping = g
        /\ \A i \in 1..Len(g) : probe.numSplats >= g[i].base + g[i].count
        /\ \/ g = <<>> /\ probe.numSplats = 0
           \/ \E i \in 1..Len(g) : probe.numSplats = g[i].base + g[i].count

\* A call without forceUpdate in which one entry is regenerated for its
\* version alone and another entry, unchanged, is not.
C26_Witness ==
  /\ Generated /\ ~probe.forceUpdate
  /\ Len(probe.generators) = 2 /\ Len(probe.previous) = 2
  /\ \E i, j \in 1..2 :
       /\ probe.ran[i] /\ ~probe.ran[j]
       /\ HasSplatsToGenerate(probe.generators[j])
       /\ LET e == MappingGet(probe.previous, probe.generators[i].node)
          IN  /\ e.generator = probe.generators[i].generator
              /\ e.base = probe.generators[i].base
              /\ e.count = probe.generators[i].count
              /\ e.version # probe.generators[i].version
  /\ probe.ret /\ probe.numSplats = 2

\* C29: when splats.generate throws for an entry, the node loses its
\* generator and keeps the error, the entries after it are still processed,
\* the call returns true, and numSplats, toWorld and mapping are set from
\* the whole list, the failed entry keeping its generator and version.
C29_FailingGeneratorDoesNotAbort ==
  (Generated /\ probe.thrown # {}) =>
    LET g == probe.generators
    IN  /\ \A n \in Nodes :
             IF n \in probe.thrown
             THEN /\ probe.nodes[n].generator = Undef
                  /\ probe.nodes[n].generatorError
             ELSE probe.nodes[n] = NodesInit[n]
        /\ Len(probe.ran) = Len(g)
        /\ \A i \in 1..Len(g) :
             probe.ran[i] <=>
               /\ HasSplatsToGenerate(g[i])
               /\ IsDifferent(g[i], MappingGet(probe.previous, g[i].node),
                              probe.forceUpdate)
        /\ \A i \in 1..Len(g) : g[i].node \in probe.thrown => probe.ran[i]
        /\ probe.ret
        /\ probe.mapping = g
        /\ probe.toWorld = "originToWorld"
        /\ \A i \in 1..Len(g) : probe.numSplats >= g[i].base + g[i].count
        /\ \E i \in 1..Len(g) : probe.numSplats = g[i].base + g[i].count
        /\ \A i \in 1..Len(g) :
             g[i].node \in probe.thrown =>
               /\ probe.mapping[i].generator # Undef
               /\ probe.mapping[i].generator = g[i].generator
               /\ probe.mapping[i].version = g[i].version

\* The first of two entries throws and the second is still regenerated.
C29_Witness ==
  /\ Generated
  /\ Len(probe.generators) = 2
  /\ probe.thrown = {probe.generators[1].node}
  /\ probe.ran[2]
  /\ probe.nodes[probe.generators[2].node].generator # Undef
  /\ probe.numSplats = probe.generators[2].base + probe.generators[2].count
  /\ probe.numSplats > probe.generators[1].base + probe.generators[1].count

(***************************************************************************)
(* SplatAccumulator.ensureGenerate and ensureGenerateCpu. PackedSplats is  *)
(* known by its capacity maxSplats only: ensureSplats and ensureGenerate   *)
(* leave a sufficient capacity alone and otherwise resize to a capacity    *)
(* that holds the request; ensureGenerate returns whether it resized.      *)
(***************************************************************************)
Capacities == 0..3
Requests == 1..3

\* Capacities a resize for n splats may end with: exact, or rounded up.
GrownCapacities(n) == {n, n + 1}

\* PackedSplats.ensureSplats(n): the capacity afterwards.
EnsureSplats(capacity, n, grown) == IF n <= capacity THEN capacity ELSE grown

\* PackedSplats.ensureGenerate(n): the capacity afterwards and the result.
PackedEnsureGenerate(capacity, n, grown) ==
  [maxSplats |-> IF n <= capacity THEN capacity ELSE grown,
   ret |-> ~(n <= capacity)]

\* splats.numSplats after generateSplats over m (lines 96, 99).
RECURSIVE NumSplatsOf(_)
NumSplatsOf(m) ==
  IF m = <<>> THEN 0
  ELSE LET rest == NumSplatsOf(Tail(m))
           here == Head(m).base + Head(m).count
       IN  IF here > rest THEN here ELSE rest

\* An accumulator after an earlier generateSplats, its capacity holding the
\* splats it has.
EnsureInit ==
  /\ Init!1 /\ Init!2 /\ SortPassInit /\ RenderPassInit
  /\ sortRun = NoSortRun
  /\ \E m \in EarlierLists : \E capacity \in Capacities :
       /\ capacity >= NumSplatsOf(m)
       /\ probe = [fn |-> "ensure", last |-> "generateSplats",
                   mapping |-> m, maxSplats |-> capacity]

\* SplatAccumulator.ensureGenerate(maxSplats)
EnsureGenerate(maxSplats, grown) ==
  LET packed == PackedEnsureGenerate(probe.maxSplats, maxSplats, grown)
  IN  /\ probe.last = "generateSplats"
      /\ probe' = [fn |-> "ensure", last |-> "ensureGenerate",
                   request |-> maxSplats,
                   previous |-> probe.mapping, before |-> probe.maxSplats,
                   maxSplats |-> packed.maxSplats,
                   mapping |-> IF packed.ret THEN <<>> ELSE probe.mapping,
                   cleared |-> packed.ret]
      /\ UNCHANGED <<pipeVars, sortRun>>

\* SplatAccumulator.ensureGenerateCpu(maxSplats)
EnsureGenerateCpu(maxSplats, grown) ==
  LET after == EnsureSplats(probe.maxSplats, maxSplats, grown)
      clear == after # maxSplats
  IN  /\ probe.last = "generateSplats"
      /\ probe' = [fn |-> "ensure", last |-> "ensureGenerateCpu",
                   request |-> maxSplats,
                   previous |-> probe.mapping, before |-> probe.maxSplats,
                   maxSplats |-> after,
                   mapping |-> IF clear THEN <<>> ELSE probe.mapping,
                   cleared |-> clear]
      /\ UNCHANGED <<pipeVars, sortRun>>

\* One call on each earlier accumulator.
EnsureNext ==
  \/ \E maxSplats \in Requests : \E grown \in GrownCapacities(maxSplats) :
       EnsureGenerate(maxSplats, grown)
  \/ \E maxSplats \in Requests : \E grown \in GrownCapacities(maxSplats) :
       EnsureGenerateCpu(maxSplats, grown)

SpecEnsure == EnsureInit /\ [][EnsureNext]_vars

\* C27: ensureGenerateCpu, like ensureGenerate, clears the mapping exactly
\* when the packed-splat buffer had to be resized to hold maxSplats, and
\* leaves the mapping as it was when the capacity already sufficed.
C27_MappingClearedExactlyOnResize ==
  (probe.fn = "ensure" /\ probe.last \in {"ensureGenerate", "ensureGenerateCpu"}) =>
    LET resized == probe.before < probe.request
    IN  /\ probe.cleared <=> resized
        /\ resized => probe.mapping = <<>>
        /\ ~resized => probe.mapping = probe.previous

(***************************************************************************)
(* SplatAccumulator.hasCorrespondence on the mappings of two accumulators. *)
(***************************************************************************)
\* hasCorrespondence comparing version as well.
HasCorrespondence_WithVersion(this, other) ==
  IF Len(this) # Len(other) THEN FALSE
  ELSE \A i \in 1..Len(this) :
         /\ this[i].node = other[i].node
         /\ this[i].version = other[i].version
         /\ this[i].base = other[i].base
         /\ this[i].count = other[i].count

\* this.hasCorrespondence(other), on the two mapping arrays.
HasCorrespondence(this, other) ==
  IF Len(this) # Len(other) THEN FALSE
  ELSE \A i \in 1..Len(this) :
         /\ this[i].node = other[i].node
         /\ this[i].base = other[i].base
         /\ this[i].count = other[i].count

\* Mappings of accumulators that generated something for every entry.
CorrespondenceLists ==
  MappingLists({e \in GeneratorMapping : e.generator # 2 /\ e.count > 0})

CorrespondenceInit ==
  /\ Init!1 /\ Init!2 /\ SortPassInit /\ RenderPassInit
  /\ sortRun = NoSortRun
  /\ \E a \in CorrespondenceLists :
       probe = [fn |-> "hasCorrespondence", called |-> FALSE, a |-> a]

\* a.hasCorrespondence(b), b.hasCorrespondence(a) and a.hasCorrespondence(a)
RunHasCorrespondence(b) ==
  /\ probe' = [fn |-> "hasCorrespondence", called |-> TRUE,
               a |-> probe.a, b |-> b,
               ab |-> HasCorrespondence(probe.a, b),
               ba |-> HasCorrespondence(b, probe.a),
               aa |-> HasCorrespondence(probe.a, probe.a)]
  /\ UNCHANGED <<pipeVars, sortRun>>

\* One comparison for each accumulator a.
CorrespondenceNext ==
  /\ probe.fn = "hasCorrespondence" /\ ~probe.called
  /\ \E b \in CorrespondenceLists : RunHasCorrespondence(b)

SpecCorrespondence == CorrespondenceInit /\ [][CorrespondenceNext]_vars

Compared == probe.fn = "hasCorrespondence" /\ probe.called

\* C28: a.hasCorrespondence(b) is true iff the mappings have the same length
\* and agree position by position on node, base and count, whatever their
\* versions and generators; it is reflexive and symmetric, and a mapping does
\* not correspond to a reordering of its entries.
C28_CorrespondenceIsPositional ==
  Compared =>
    LET a == probe.a
        b == probe.b
        key(e) == <<e.node, e.base, e.count>>
    IN  /\ probe.ab <=> /\ Len(a) = Len(b)
                        /\ \A i \in 1..Len(a) : key(a[i]) = key(b[i])
        /\ probe.aa
        /\ probe.ab <=> probe.ba
        /\ (Len(a) = 2 /\ b = <<a[2], a[1]>>) => ~probe.ab

\* Two mappings of two entries that differ in version and generator at both
\* positions and correspond.
C28_Witness ==
  /\ Compared
  /\ Len(probe.a) = 2 /\ Len(probe.b) = 2
  /\ \A i \in 1..2 :
       /\ probe.a[i].version # probe.b[i].version
       /\ probe.a[i].generator # probe.b[i].generator
  /\ probe.ab /\ probe.ba

(***************************************************************************)
(* Two update() calls on one pipeline, interleaved at their await points.  *)
(* The passes' fields are the shared variables of the pipeline; each call  *)
(* keeps its parameters and locals in probe.calls. Commands submitted to   *)
(* the GPU queue execute in submission order, so the effect of a dispatch  *)
(* or of a readback copy is placed at its submission.                      *)
(***************************************************************************)
Calls == {1, 2}

\* numSplats of the overlapping calls: one count per sort branch.
OverlapCounts == {SortThreshold - 1, SortThreshold}

\* The overlapping calls are frames of the well-formed texture: its keys
\* are finite, so that each sort has one result.
OverlapTextures == {1}

NewCall ==
  [pc |-> "new", numSplats |-> 0, tex |-> Placeholder, camId |-> 0,
   sortRadial |-> TRUE, overlapped |-> FALSE, keysOf |-> 0,
   distArray |-> <<>>, uploaded |-> <<>>]

InFlight(c) == probe.calls[c].pc \in {"distance", "readback", "project"}

CameraOf(c) == CHOOSE cam \in Cameras : cam.id = probe.calls[c].camId

\* The uniform values sort() writes for the parameters of call c.
SortUniformsOf(c) ==
  [numSplats |-> probe.calls[c].numSplats,
   viewOrigin |-> ViewOrigin(CameraOf(c)),
   viewDirection |-> ViewDirection(CameraOf(c)),
   sortRadial |-> IF probe.calls[c].sortRadial THEN 1 ELSE 0,
   depthBias |-> Tunables.depthBias, tex |-> probe.calls[c].tex,
   nodeBuilds |-> 1]

OverlapInit ==
  /\ Init!1 /\ Init!2 /\ SortPassInit /\ RenderPassInit
  /\ sortRun = NoSortRun
  /\ probe = [fn |-> "overlap", calls |-> [c \in Calls |-> NewCall],
              lastDispatch |-> 0]

\* update() of call c up to its first await: sort() writes the uniforms and
\* dispatches the distance node. Every call in flight is now overlapped.
\* The calls are numbered in the order they are made.
OverlapBegin(c, n, tex, cam, sortRadial) ==
  /\ probe.calls[c].pc = "new"
  /\ \A d \in Calls : d < c => probe.calls[d].pc # "new"
  /\ sortU' = [numSplats |-> n, viewOrigin |-> ViewOrigin(cam),
               viewDirection |-> ViewDirection(cam),
               sortRadial |-> IF sortRadial THEN 1 ELSE 0,
               depthBias |-> Tunables.depthBias, tex |-> tex,
               nodeBuilds |-> DistanceNodeBuilds(sortU, tex)]
  /\ distBuffer' = DistanceKernel(sortU')
  /\ probe' = [probe EXCEPT
       !.lastDispatch = c,
       !.calls = [d \in Calls |->
          IF d = c
          THEN [NewCall EXCEPT !.pc = "distance", !.numSplats = n,
                               !.tex = tex, !.camId = cam.id,
                               !.sortRadial = sortRadial,
                               !.overlapped = \E e \in Calls : InFlight(e)]
          ELSE IF InFlight(d)
               THEN [probe.calls[d] EXCEPT !.overlapped = TRUE]
               ELSE probe.calls[d]]]
  /\ UNCHANGED <<pc, call, indicesArray, sortedArray, renderU, node,
                 currentTexture, useSortedIndices, buf, drawRange,
                 indexBuffer, sortRun>>

\* The distance readback issued before the dispatch has been awaited: the
\* copy is taken when the call begins.
IssueReadback_AtBegin(c) == DistanceKernel(SortUniformsOf(c))

\* getArrayBufferAsync(distanceAttr) issued by call c: a copy of the
\* distance buffer as the commands submitted so far leave it.
IssueReadback(c) == distBuffer

\* computeAsync of call c resolves; sort() issues the readback.
OverlapDistanceDone(c) ==
  /\ probe.calls[c].pc = "distance"
  /\ probe' = [probe EXCEPT
       !.calls[c].pc = "readback",
       !.calls[c].distArray = IssueReadback(c),
       !.calls[c].keysOf = probe.lastDispatch]
  /\ UNCHANGED <<pipeVars, sortRun>>

\* setSortedIndicesStorage, then RenderComputePass.update up to its await,
\* for call c; the projection kernel is dispatched over sorted.
OverlapRenderDispatch(c, sorted) ==
  /\ useSortedIndices' = TRUE
  /\ renderU' = RenderUniforms(probe.calls[c].numSplats, CameraOf(c), Tunables)
  /\ IF RebuildNeeded(currentTexture, probe.calls[c].tex)
     THEN /\ currentTexture' = probe.calls[c].tex
          /\ node' = [useSorted |-> TRUE, tex |-> probe.calls[c].tex]
     ELSE UNCHANGED <<currentTexture, node>>
  /\ buf' = ProjectionKernel(buf, renderU', node', sorted, 0)

\* The readback of call c resolves: steps 3 and 4 of sort() over the copy,
\* then the render pass is dispatched.
OverlapReadbackOk(c) ==
  /\ probe.calls[c].pc = "readback"
  /\ \E sortedIdx \in CpuSort(indicesArray, probe.calls[c].distArray,
                              probe.calls[c].numSplats) :
       /\ indicesArray' = sortedIdx
       /\ sortedArray' = Upload(sortedArray, sortedIdx, probe.calls[c].numSplats)
       /\ probe' = [probe EXCEPT
            !.calls[c].pc = "project",
            !.calls[c].uploaded =
               [k \in 1..probe.calls[c].numSplats |-> sortedArray'[k - 1]]]
  /\ OverlapRenderDispatch(c, sortedArray')
  /\ UNCHANGED <<pc, call, sortU, distBuffer, drawRange, indexBuffer, sortRun>>

\* The readback of call c rejects: sort() returns, the render pass runs.
OverlapReadbackFail(c) ==
  /\ probe.calls[c].pc = "readback"
  /\ probe' = [probe EXCEPT !.calls[c].pc = "project"]
  /\ OverlapRenderDispatch(c, sortedArray)
  /\ UNCHANGED <<pc, call, sortU, distBuffer, indicesArray, sortedArray,
                 drawRange, indexBuffer, sortRun>>

\* computeAsync(computeNode) of call c resolves; then setDrawRange.
OverlapProjectDone(c) ==
  /\ probe.calls[c].pc = "project"
  /\ drawRange' = SetDrawRange(probe.calls[c].numSplats)
  /\ probe' = [probe EXCEPT !.calls[c].pc = "done"]
  /\ UNCHANGED <<pc, call, sortU, distBuffer, indicesArray, sortedArray,
                 renderU, node, currentTexture, useSortedIndices, buf,
                 indexBuffer, sortRun>>

OverlapNext ==
  \/ \E c \in Calls : \E n \in OverlapCounts : \E tex \in OverlapTextures :
       \E cam \in Cameras : \E sortRadial \in BOOLEAN :
         OverlapBegin(c, n, tex, cam, sortRadial)
  \/ \E c \in Calls : OverlapDistanceDone(c)
  \/ \E c \in Calls : OverlapReadbackOk(c)
  \/ \E c \in Calls : OverlapReadbackFail(c)
  \/ \E c \in Calls : OverlapProjectDone(c)

SpecOverlap == OverlapInit /\ [][OverlapNext]_vars

Uploaded(c) == probe.fn = "overlap" /\ probe.calls[c].uploaded # <<>>

\* What sort() of call c uploads when it sorts by the keys of call d.
UploadsBy(c, d) ==
  LET n == probe.calls[c].numSplats
      keys == [i \in 0..(MaxSplats - 1) |-> DistanceOf(SortUniformsOf(d), i)]
  IN  {[k \in 1..n |-> s[k - 1]] :
         s \in CpuSort([i \in 0..(MaxSplats - 1) |-> i], keys, n)}

\* C30 as stated: whatever the interleaving, each call sorts by the keys of
\* its own view origin, view direction and sort mode, and uploads the order
\* they give.
C30_OverlappingCallsNeverMix ==
  \A c \in Calls :
    Uploaded(c) =>
      /\ probe.calls[c].distArray =
           [i \in 0..(MaxSplats - 1) |-> DistanceOf(SortUniformsOf(c), i)]
      /\ probe.calls[c].uploaded \in UploadsBy(c, c)

\* C30, amended: the calls share uniforms and distance buffer, so a call
\* sorts its own numSplats indices by the keys of the call that dispatched
\* last before its readback was issued; that is the call itself whenever no
\* other update() overlaps it.
C30_CallSortsByLastDispatchedKeys ==
  \A c \in Calls :
    Uploaded(c) =>
      LET d == probe.calls[c].keysOf
      IN  /\ d \in Calls
          /\ probe.calls[c].distArray =
               [i \in 0..(MaxSplats - 1) |-> DistanceOf(SortUniformsOf(d), i)]
          /\ probe.calls[c].uploaded \in UploadsBy(c, d)
          /\ ~probe.calls[c].overlapped => d = c

\* Call 2 began while call 1 awaited its dispatch, and call 1 then uploaded
\* an order of its own three indices that its own keys do not give; call 2,
\* begun and finished with call 1 in flight, sorted by its own keys.
C30_Witness ==
  /\ Uploaded(1) /\ Uploaded(2)
  /\ probe.calls[1].overlapped /\ probe.calls[1].keysOf = 2
  /\ probe.calls[1].numSplats = 3 /\ probe.calls[2].numSplats = 2
  /\ probe.calls[1].uploaded \notin UploadsBy(1, 1)
  /\ probe.calls[2].keysOf = 2

====
